---- MODULE Spec2Model ----
(***************************************************************************)
(* Activation performance analysis (analysis.py): the redemption matcher,  *)
(* the period analyzer, the baseline normalizer and the budget tracker.    *)
(*                                                                         *)
(* Time is counted in seconds from Monday 2025-10-13 00:00:00, the default *)
(* budget cutoff of the script.  Amounts are whole currency units.         *)
(* Timestamps of the input lie on whole seconds, so the 999999 microsecond *)
(* part of day_end compares like 23:59:59.                                 *)
(***************************************************************************)
EXTENDS Integers, Sequences, FiniteSets, TLC

\* ------------------------------------------------------------------------
\* Calendar constants
\* ------------------------------------------------------------------------
MINUTE == 60
HOUR == 3600
DAY == 86400
WEEK == 604800

\* pd.NaT / NaN / None
NaT == -2000000000
NoneVal == -1
\* a missing user_id (NaN)
NanUser == 0

IsNaT(t) == t = NaT
\* comparisons of pandas Timestamps: any comparison with NaT is False
TsGe(a, b) == a # NaT /\ b # NaT /\ a >= b
\* variant: NaT compares as the earliest time
TsLeOrdered(a, b) == a <= b
TsLe(a, b) == a # NaT /\ b # NaT /\ a <= b
TsLt(a, b) == a # NaT /\ b # NaT /\ a < b

Max2(a, b) == IF a >= b THEN a ELSE b
Min2(a, b) == IF a <= b THEN a ELSE b
SetMin(S) == CHOOSE x \in S : \A y \in S : x <= y
SetMax(S) == CHOOSE x \in S : \A y \in S : x >= y

\* ------------------------------------------------------------------------
\* get_last_complete_weeks
\* ------------------------------------------------------------------------
DayFloor(t) == t - (t % DAY)
Weekday(t) == (DayFloor(t) \div DAY) % 7

get_last_complete_weeks(current_date) ==
    LET current_week_monday == current_date - Weekday(current_date) * DAY
        last_week_end == current_week_monday - DAY
        last_week_start == last_week_end - 6 * DAY
        second_last_week_end == last_week_start - DAY
        second_last_week_start == second_last_week_end - 6 * DAY
    IN [week1_start |-> DayFloor(second_last_week_start),
        week1_end   |-> DayFloor(second_last_week_end) + DAY - 1,
        week2_start |-> DayFloor(last_week_start),
        week2_end   |-> DayFloor(last_week_end) + DAY - 1]

\* ------------------------------------------------------------------------
\* Names and keys
\* ------------------------------------------------------------------------
SpectatorName == "The Bar at The Spectator"

\* str.strip().str.lower() on the names the inputs use
Normalize(s) ==
    CASE s = "Cafe" -> "cafe"
      [] s = "cafe " -> "cafe"
      [] s = "Bistro" -> "bistro"
      [] s = "Main" -> "main"
      [] s = SpectatorName -> "the bar at the spectator"
      [] OTHER -> s

\* lexicographic rank of the raw names (groupby sorts by key)
NameRank(s) ==
    CASE s = "Bistro" -> 1
      [] s = "Cafe" -> 2
      [] s = "Main" -> 3
      [] s = SpectatorName -> 4
      [] s = "cafe " -> 5
      [] OTHER -> 6

MatchKey(rest, loc) == <<Normalize(rest), Normalize(loc)>>

\* descriptions of the inputs; what the script reads from a description is
\* the 'Spend $' prefix, its length and the two amounts of the regexes
DescShort == "Spend $2, get $1"
DescLong == "Spend $2 and receive $1 back"
DescThree == "Spend $3, get $1"
DescTwoTwo == "Spend $2, get $2"
DescOther == "Happy hour: spend $2, get $2"
DescUnparsed == "Spend $ two, get a treat"
DescFree == "Free dessert"
\* str.startswith('Spend $')
StartsWithSpend(d) == d \in {DescShort, DescLong, DescThree, DescTwoTwo, DescUnparsed}
\* len(description)
DescLen(d) ==
    CASE d = DescShort -> 16
      [] d = DescLong -> 28
      [] d = DescThree -> 16
      [] d = DescTwoTwo -> 16
      [] d = DescOther -> 28
      [] d = DescUnparsed -> 24
      [] d = DescFree -> 12
      [] OTHER -> 0
\* the regexes of parse_spend_description, without the Claude client
parse_spend_description(d) ==
    CASE d \in {DescShort, DescLong} -> [minimum_spend |-> 2, reward_amount |-> 1]
      [] d = DescThree -> [minimum_spend |-> 3, reward_amount |-> 1]
      [] d \in {DescTwoTwo, DescOther} -> [minimum_spend |-> 2, reward_amount |-> 2]
      [] OTHER -> [minimum_spend |-> NoneVal, reward_amount |-> NoneVal]

\* ------------------------------------------------------------------------
\* Sequence helpers
\* ------------------------------------------------------------------------
RECURSIVE SumSeq(_)
SumSeq(s) == IF s = <<>> THEN 0 ELSE Head(s) + SumSeq(Tail(s))

RECURSIVE AscSeq(_)
\* the elements of a finite set of integers, ascending
AscSeq(S) ==
    IF S = {} THEN <<>>
    ELSE LET m == CHOOSE x \in S : \A y \in S : x <= y
         IN <<m>> \o AscSeq(S \ {m})

Range(s) == {s[i] : i \in DOMAIN s}

\* twice the median of a non-empty sequence of integers (Series.median,
\* np.median: mean of the two middle values when the count is even)
Median2(s) ==
    LET srt == SortSeq(s, LAMBDA a, b: a < b)
        n == Len(s)
    IN IF n % 2 = 1 THEN 2 * srt[(n + 1) \div 2]
       ELSE srt[n \div 2] + srt[n \div 2 + 1]

\* round(num/den, 2) expressed in hundredths (ties to even)
RoundHundredths(num, den) ==
    LET n == 100 * num
        q == (2 * n + den) \div (2 * den)
    IN IF (2 * n + den) % (2 * den) = 0 /\ q % 2 = 1 THEN q - 1 ELSE q

\* ------------------------------------------------------------------------
\* State
\* ------------------------------------------------------------------------
VARIABLES
    transactions,            \* rows of all_transactions.csv, after parsing
    activations,             \* rows of all_activations.csv, after parsing
    current_date,            \* CURRENT_DATE
    pc,                      \* position of the script
    spend_activations,       \* indices of the activations that pass the filters
    activation_periods,      \* match_key -> list of [start, end]
    transactions_sorted,     \* transactions.sort_values('created_at_dt')
    hist_pos,                \* position of the user-history loop
    user_first_transaction,  \* (match_key, user_id) -> first timestamp
    groupings,               \* the grouping keys, in groupby order
    g,                       \* position of the grouping loop
    grp,                     \* the values extracted for the current grouping
    wk,                      \* position in weeks_to_analyze
    active_days,             \* sorted(active_days)
    d,                       \* position in the active days
    matching_txns,           \* matching_txns / daily_txns after drop_duplicates
    user_queue,              \* users still to scan, in unique() order
    cur_user,                \* user_id of the running scan
    user_txns,               \* the user's transactions, sorted by timestamp
    scan_pos,                \* position of iterrows() in user_txns
    used_indices,
    qualifying_redemptions,
    redeemed_users,
    marketing_spend,
    unique_users_redeemed,
    new_users,
    returning_users,
    tpv_vs_baseline,
    median_check_vs_baseline,
    remaining_group_budget,
    effective_day_start,
    effective_day_end,
    weekly_results,
    daily_results,
    weekly_file,
    daily_file,
    audit,                   \* history: per output row, what it was computed from
    window_log,              \* history: one entry per anchor evaluated in the scope
    baseline_log,            \* history: the baseline windows of the scope
    budget_log,              \* history: the windows of the budget computation
    run_no,                  \* which run of the script on these inputs this is
    first_run,               \* history: the files and the audit of the first run
    contacts,                \* contact_matching.py: rows of all_contacts.csv
    claude_client,           \* whether the verification client exists
    candidate_matches,
    verified_matches,
    cm_pc,                   \* position of contact_matching.py for one row
    cm_pos,                  \* position of its loops
    emails                   \* all_match_emails of the row

inputVars == <<transactions, activations, current_date>>
runVars == <<run_no, first_run>>
matchVars == <<contacts, claude_client, candidate_matches, verified_matches,
               cm_pc, cm_pos, emails>>
indexVars == <<spend_activations, activation_periods, transactions_sorted,
               hist_pos, user_first_transaction>>
loopVars == <<groupings, g, grp, wk, active_days, d>>
scanVars == <<user_queue, cur_user, user_txns, scan_pos, used_indices,
              qualifying_redemptions, redeemed_users, window_log>>
scopeVars == <<matching_txns, marketing_spend, unique_users_redeemed,
               new_users, returning_users, tpv_vs_baseline,
               median_check_vs_baseline, baseline_log>>
budgetVars == <<remaining_group_budget, budget_log>>
dayVars == <<effective_day_start, effective_day_end>>
outVars == <<weekly_results, daily_results, weekly_file, daily_file, audit>>

vars == <<inputVars, runVars, matchVars, pc, indexVars, loopVars, scanVars, scopeVars,
          budgetVars, dayVars, outVars>>

weeks == get_last_complete_weeks(current_date)
ANALYSIS_START == weeks.week1_start
ANALYSIS_END == weeks.week2_end
WEEK1_START == weeks.week1_start
WEEK1_END == weeks.week1_end
WEEK2_START == weeks.week2_start
WEEK2_END == weeks.week2_end

TxnKey(i) == MatchKey(transactions[i].rest_name, transactions[i].location_name)
ActKey(i) == MatchKey(activations[i].restaurant_name, activations[i].location_name)

\* ------------------------------------------------------------------------
\* Exact fractions <<numerator, denominator>>, denominator > 0
\* ------------------------------------------------------------------------
Rat(n, dd) == <<n, dd>>
RSub(a, b) == <<a[1] * b[2] - b[1] * a[2], a[2] * b[2]>>
RMulInt(a, k) == <<a[1] * k, a[2]>>
\* a / b for b > 0
RDiv(a, b) == <<a[1] * b[2], a[2] * b[1]>>
RPos(a) == a[1] > 0
RIsZero(a) == a[1] = 0

\* an optional number: None, or a fraction
NoLift == [isNone |-> TRUE, val |-> Rat(0, 1)]
SomeLift(r) == [isNone |-> FALSE, val |-> r]
\* round(x, 2) if x is not None else None
NoneRounded == -1000001
RoundOpt(x) == IF x.isNone THEN NoneRounded
               ELSE RoundHundredths(x.val[1], x.val[2])

\* variant: the parsed terms are not validated
PassesFiltersUnvalidated(a) ==
    /\ StartsWithSpend(a.description)
    /\ TsLe(a.start_dt, ANALYSIS_END)
    /\ TsGe(a.end_dt, ANALYSIS_START)
\* ------------------------------------------------------------------------
\* Activation filters (lines 237-255)
\* ------------------------------------------------------------------------
PassesFilters(a) ==
    /\ StartsWithSpend(a.description)
    /\ TsLe(a.start_dt, ANALYSIS_END)
    /\ TsGe(a.end_dt, ANALYSIS_START)
    /\ a.minimum_spend # NoneVal
    /\ a.reward_amount # NoneVal

FilteredActivations ==
    AscSeq({i \in DOMAIN activations : PassesFilters(activations[i])})

\* ------------------------------------------------------------------------
\* Exclusion index (lines 313-331)
\* ------------------------------------------------------------------------
HasInterval(a) == ~IsNaT(a.start_dt) /\ ~IsNaT(a.end_dt)

RECURSIVE PeriodsOf(_, _)
\* the intervals appended for one key, in the order of the rows
PeriodsOf(key, i) ==
    IF i > Len(activations) THEN <<>>
    ELSE (IF ActKey(i) = key /\ HasInterval(activations[i])
          THEN <<[start |-> activations[i].start_dt, end |-> activations[i].end_dt]>>
          ELSE <<>>) \o PeriodsOf(key, i + 1)

\* variant: the index is built from the scored activations
BuildActivationPeriodsScored ==
    [key \in {ActKey(spend_activations[n]) : n \in DOMAIN spend_activations} |->
        LET own == AscSeq({i \in Range(spend_activations) :
                              ActKey(i) = key /\ HasInterval(activations[i])})
        IN [n \in DOMAIN own |-> [start |-> activations[own[n]].start_dt,
                                  end |-> activations[own[n]].end_dt]]]
BuildActivationPeriods ==
    [key \in {ActKey(i) : i \in {j \in DOMAIN activations : HasInterval(activations[j])}}
        |-> PeriodsOf(key, 1)]

\* lines 324-327: the membership test comes before the defaultdict is
\* indexed, so a lookup stores nothing
PeriodsAfterLookup(periods, match_key) == periods

is_in_activation_period(match_key, check_start, check_end) ==
    IF match_key \notin DOMAIN activation_periods THEN FALSE
    ELSE \E i \in DOMAIN activation_periods[match_key] :
            LET period == activation_periods[match_key][i]
            IN ~(check_end < period.start \/ check_start > period.end)

\* variant: sort_values(ascending=False)
SortKeyDescending(i) == IF IsNaT(transactions[i].created_at_dt) THEN 2000000000
                        ELSE 0 - transactions[i].created_at_dt
\* ------------------------------------------------------------------------
\* Sorting by timestamp (sort_values, NaT last, order of ties not fixed)
\* ------------------------------------------------------------------------
SortKey(i) == IF IsNaT(transactions[i].created_at_dt) THEN 2000000000
              ELSE transactions[i].created_at_dt

\* variant: the rows are left in the order of the input
SortedOrdersOfInput(S) == {AscSeq(S)}
SortedOrders(S) ==
    LET n == Cardinality(S)
    IN {o \in [1..n -> S] :
            /\ \A i, j \in 1..n : i # j => o[i] # o[j]
            /\ \A i \in 1..n : i < n => SortKey(o[i]) <= SortKey(o[i + 1])}

\* ------------------------------------------------------------------------
\* Transactions of a scope
\* ------------------------------------------------------------------------
\* transactions[(match_key == key) & (created_at_dt >= lo) & (created_at_dt <= hi)]
TxnsBetween(key, lo, hi) ==
    AscSeq({i \in DOMAIN transactions :
              /\ TxnKey(i) = key
              /\ TsGe(transactions[i].created_at_dt, lo)
              /\ TsLe(transactions[i].created_at_dt, hi)})

\* DataFrame.drop_duplicates(): the first of rows equal in every column stays
drop_duplicates(s) ==
    LET keep == {k \in DOMAIN s :
                   \A j \in DOMAIN s : j < k => transactions[s[j]] # transactions[s[k]]}
        ks == AscSeq(keep)
    IN [k \in DOMAIN ks |-> s[ks[k]]]

\* variant: the transactions of the overall span of the grouping
WeeklyConcatOverall(periods, i, key, week_start, week_end) ==
    IF i > 1 THEN <<>>
    ELSE TxnsBetween(key,
                     Max2(SetMin({periods[n].start : n \in DOMAIN periods}), week_start),
                     Min2(SetMax({periods[n].end : n \in DOMAIN periods}), week_end))
RECURSIVE WeeklyConcat(_, _, _, _, _)
\* lines 444-463
WeeklyConcat(periods, i, key, week_start, week_end) ==
    IF i > Len(periods) THEN <<>>
    ELSE LET effective_period_start == Max2(periods[i].start, week_start)
             effective_period_end == Min2(periods[i].end, week_end)
         IN (IF effective_period_start > effective_period_end THEN <<>>
             ELSE TxnsBetween(key, effective_period_start, effective_period_end))
            \o WeeklyConcat(periods, i + 1, key, week_start, week_end)

DayEffStart(period, day_start) == Max2(Max2(day_start, period.start), ANALYSIS_START)
DayEffEnd(period, day_end) == Min2(Min2(day_end, period.end), ANALYSIS_END)

RECURSIVE DailyConcat(_, _, _, _, _)
\* lines 724-743
DailyConcat(periods, i, key, day_start, day_end) ==
    IF i > Len(periods) THEN <<>>
    ELSE (IF DayEffStart(periods[i], day_start) > DayEffEnd(periods[i], day_end) THEN <<>>
          ELSE TxnsBetween(key, DayEffStart(periods[i], day_start),
                           DayEffEnd(periods[i], day_end)))
         \o DailyConcat(periods, i + 1, key, day_start, day_end)

\* Series.unique(): values in order of first appearance, NaN included
RECURSIVE UniqueSeq(_)
UniqueSeq(s) ==
    IF s = <<>> THEN <<>>
    ELSE LET r == UniqueSeq(SubSeq(s, 1, Len(s) - 1))
             x == s[Len(s)]
         IN IF x \in Range(r) THEN r ELSE Append(r, x)

UsersOf(txns) == UniqueSeq([k \in DOMAIN txns |-> transactions[txns[k]].user_id])
\* Series.nunique(): NaN is not counted
NUnique(txns) == Cardinality(Range(UsersOf(txns)) \ {NanUser})

AmountsOf(txns) == [k \in DOMAIN txns |-> transactions[txns[k]].amount]

has_transactions == Len(matching_txns) > 0
\* variant: the note follows the redemptions
notesByRedemptions ==
    IF unique_users_redeemed > 0 THEN "" ELSE "No transactions during activation period"
notes == IF has_transactions THEN "" ELSE "No transactions during activation period"
unique_users == IF has_transactions THEN NUnique(matching_txns) ELSE 0
total_tpv == IF has_transactions THEN SumSeq(AmountsOf(matching_txns)) ELSE 0
\* twice the median check, or None
median_check == IF has_transactions THEN Median2(AmountsOf(matching_txns)) ELSE NoneVal

\* ------------------------------------------------------------------------
\* Redemption matcher: the 1-hour window of an anchor
\* ------------------------------------------------------------------------
RECURSIVE SumAmounts(_)
SumAmounts(S) ==
    IF S = {} THEN 0
    ELSE LET i == CHOOSE x \in S : TRUE
         IN transactions[i].amount + SumAmounts(S \ {i})

Ts(i) == transactions[i].created_at_dt

\* variant: the end of the hour is not part of the window
WeeklyWindowTxnsOpen(utx, anchor, used) ==
    LET window_start == Ts(anchor)
        window_end == window_start + HOUR
    IN {i \in Range(utx) : Ts(i) >= window_start /\ Ts(i) < window_end /\ i \notin used}
\* variant: of the rows at the anchor's timestamp only the anchor is taken
WeeklyWindowTxnsAfterAnchor(utx, anchor, used) ==
    LET window_start == Ts(anchor)
        window_end == window_start + HOUR
    IN {i \in Range(utx) :
           /\ i = anchor \/ Ts(i) > window_start
           /\ Ts(i) <= window_end
           /\ i \notin used}
\* variant: the window reaches an hour back from the anchor as well
WeeklyWindowTxnsAround(utx, anchor, used) ==
    LET window_start == Ts(anchor) - HOUR
        window_end == Ts(anchor) + HOUR
    IN {i \in Range(utx) : Ts(i) >= window_start /\ Ts(i) <= window_end /\ i \notin used}
\* lines 498-506
WeeklyWindowTxns(utx, anchor, used) ==
    LET window_start == Ts(anchor)
        window_end == window_start + HOUR
    IN {i \in Range(utx) : Ts(i) >= window_start /\ Ts(i) <= window_end /\ i \notin used}

\* lines 777-784
DailyWindowTxns(utx, anchor, used) ==
    LET window_start == Ts(anchor)
        window_end == window_start + HOUR
    IN {i \in Range(utx) : Ts(i) >= window_start /\ Ts(i) <= window_end /\ i \notin used}

\* lines 652-659
BudgetWindowTxns(utx, anchor, used) ==
    LET window_start == Ts(anchor)
        window_end == window_start + HOUR
    IN {i \in Range(utx) : Ts(i) >= window_start /\ Ts(i) <= window_end /\ i \notin used}

\* variant: the threshold itself does not qualify
QualifiesStrict(window_total, minimum_spend) == window_total > minimum_spend
\* window_total >= minimum_spend
Qualifies(window_total, minimum_spend) == window_total >= minimum_spend

\* variant: the window is not recorded as consumed
UpdateUsedForgotten(used, window) == used
\* variant: only the earliest transaction of a counted window is consumed
UpdateUsedAnchorOnly(used, window) ==
    IF window = {} THEN used
    ELSE used \cup {CHOOSE i \in window : \A j \in window : Ts(i) <= Ts(j)}
\* used_indices.update(window_txns.index.tolist())
UpdateUsed(used, window) == used \cup window

\* user_txns of one user: the rows of the scope with that user_id
TxnsOfUser(txns, user) ==
    IF user = NanUser THEN {}
    ELSE {txns[k] : k \in {j \in DOMAIN txns : transactions[txns[j]].user_id = user}}

\* ------------------------------------------------------------------------
\* New / returning classification (lines 522-549, 800-827)
\* ------------------------------------------------------------------------
HistoryKey(match_key, user) == <<match_key, user>>

\* variant: first seen inside the overall span
FirstSeenInOverallSpan(first_txn_date, periods) ==
    /\ first_txn_date >= SetMin({periods[n].start : n \in DOMAIN periods})
    /\ first_txn_date <= SetMax({periods[n].end : n \in DOMAIN periods})
FirstSeenInPeriods(first_txn_date, periods) ==
    \E i \in DOMAIN periods :
        first_txn_date >= periods[i].start /\ first_txn_date <= periods[i].end

\* ------------------------------------------------------------------------
\* C21: the indices during scoring
\* ------------------------------------------------------------------------
\* variant: the lookup stores a default for an absent key
HistoryAfterDefaults(history, keys) ==
    [k \in (DOMAIN history \cup keys) |-> IF k \in DOMAIN history THEN history[k] ELSE NaT]
\* lines 530-531, 808-809: `key in user_first_transaction` and a read of the
\* entry found; nothing is stored for an absent key
HistoryAfterLookups(history, keys) == history

CountsAsNew(match_key, user, periods) ==
    IF HistoryKey(match_key, user) \in DOMAIN user_first_transaction
    THEN FirstSeenInPeriods(user_first_transaction[HistoryKey(match_key, user)], periods)
    ELSE TRUE

NewUsers(txns, match_key, periods) ==
    LET us == UsersOf(txns)
    IN Cardinality({k \in DOMAIN us : CountsAsNew(match_key, us[k], periods)})

ReturningUsers(txns, match_key, periods) ==
    LET us == UsersOf(txns)
    IN Cardinality({k \in DOMAIN us : ~CountsAsNew(match_key, us[k], periods)})

\* (new_users / unique_users * 100) if unique_users > 0 else None
NewUserPercentage(new, unique) ==
    IF unique > 0 THEN SomeLift(Rat(new * 100, unique)) ELSE NoLift

\* ------------------------------------------------------------------------
\* Baseline (lines 555-595, 829-868)
\* ------------------------------------------------------------------------
BaselineOffsets == 4

\* one entry per week_offset: the window, whether it was skipped, its rows
BaselineWindow(match_key, lo, hi, week_offset) ==
    LET baseline_start == lo - week_offset * WEEK
        baseline_end == hi - week_offset * WEEK
        skipped == is_in_activation_period(match_key, baseline_start, baseline_end)
        baseline_txns == IF skipped THEN <<>>
                         ELSE TxnsBetween(match_key, baseline_start, baseline_end)
    IN [week_offset |-> week_offset, start |-> baseline_start, end |-> baseline_end,
        skipped |-> skipped, txns |-> baseline_txns,
        sampled |-> Len(baseline_txns) > 0]

BaselineWindows(match_key, lo, hi) ==
    [k \in 1..BaselineOffsets |-> BaselineWindow(match_key, lo, hi, k)]

RECURSIVE SampledOf(_, _)
SampledOf(ws, i) ==
    IF i > Len(ws) THEN <<>>
    ELSE (IF ws[i].sampled THEN <<ws[i]>> ELSE <<>>) \o SampledOf(ws, i + 1)

\* baseline_tpv_values and baseline_median_values (twice the medians)
BaselineTpvValues(ws) ==
    LET sm == SampledOf(ws, 1)
    IN [k \in DOMAIN sm |-> SumSeq(AmountsOf(sm[k].txns))]
BaselineMedianValues(ws) ==
    LET sm == SampledOf(ws, 1)
    IN [k \in DOMAIN sm |-> Median2(AmountsOf(sm[k].txns))]

InfiniteGrowth == 999

\* variant: without samples the lift is 0
TpvLiftZeroWithoutBaseline(total, baseline_tpv_values) ==
    IF Len(baseline_tpv_values) > 0
    THEN LET avg_baseline_tpv == Rat(SumSeq(baseline_tpv_values), Len(baseline_tpv_values))
         IN IF RPos(avg_baseline_tpv)
            THEN SomeLift(RMulInt(RDiv(RSub(Rat(total, 1), avg_baseline_tpv),
                                       avg_baseline_tpv), 100))
            ELSE IF total = 0 THEN SomeLift(Rat(0, 1))
                 ELSE SomeLift(Rat(InfiniteGrowth, 1))
    ELSE SomeLift(Rat(0, 1))
\* lines 583-588
TpvLift(total, baseline_tpv_values) ==
    IF Len(baseline_tpv_values) > 0
    THEN LET avg_baseline_tpv == Rat(SumSeq(baseline_tpv_values), Len(baseline_tpv_values))
         IN IF RPos(avg_baseline_tpv)
            THEN SomeLift(RMulInt(RDiv(RSub(Rat(total, 1), avg_baseline_tpv),
                                       avg_baseline_tpv), 100))
            ELSE IF total = 0 THEN SomeLift(Rat(0, 1))
                 ELSE SomeLift(Rat(InfiniteGrowth, 1))
    ELSE NoLift

\* variant: the baseline is the median of the medians only when it is positive,
\* and a zero baseline gives a lift of 0
MedianLiftWithoutSentinel(median2, baseline_median_values) ==
    IF Len(baseline_median_values) > 0
    THEN LET baseline_median_check == Rat(Median2(baseline_median_values), 4)
         IN IF RPos(baseline_median_check)
            THEN SomeLift(RMulInt(RDiv(RSub(Rat(median2, 2), baseline_median_check),
                                       baseline_median_check), 100))
            ELSE SomeLift(Rat(0, 1))
    ELSE NoLift
\* lines 590-595; median2 and the values are twice the medians
MedianLift(median2, baseline_median_values) ==
    IF Len(baseline_median_values) > 0
    THEN LET baseline_median_check == Rat(Median2(baseline_median_values), 4)
         IN IF RPos(baseline_median_check)
            THEN SomeLift(RMulInt(RDiv(RSub(Rat(median2, 2), baseline_median_check),
                                       baseline_median_check), 100))
            ELSE IF median2 = 0 THEN SomeLift(Rat(0, 1))
                 ELSE SomeLift(Rat(InfiniteGrowth, 1))
    ELSE NoLift

\* ------------------------------------------------------------------------
\* Budget tracker (lines 601-670)
\* ------------------------------------------------------------------------
DefaultBudgetStart == 0
SpectatorBudgetStart == 13 * DAY

BudgetStartDate(restaurant_name) ==
    IF restaurant_name = SpectatorName THEN SpectatorBudgetStart
    ELSE DefaultBudgetStart

\* activations['restaurant_group_id'] == restaurant_group_id (NaN equals nothing)
SameGroup(a, restaurant_group_id) ==
    /\ a.restaurant_group_id # NoneVal
    /\ restaurant_group_id # NoneVal
    /\ a.restaurant_group_id = restaurant_group_id

\* variant: the cutoff is not applied
CountsForBudgetNoCutoff(a, budget_start_date) ==
    /\ a.minimum_spend # NoneVal
    /\ a.reward_amount # NoneVal
    /\ ~IsNaT(a.start_dt)
\* lines 619-625
CountsForBudget(a, budget_start_date) ==
    /\ a.minimum_spend # NoneVal
    /\ a.reward_amount # NoneVal
    /\ ~IsNaT(a.start_dt)
    /\ ~(a.start_dt < budget_start_date)

SortByTs(S) == SortSeq(AscSeq(S), LAMBDA a, b : Ts(a) < Ts(b))

RECURSIVE BudgetScanUser(_, _, _, _, _)
\* lines 646-665: the scan of one user of one activation; st holds the
\* running group_qualifying_redemptions, used_indices and the windows seen
BudgetScanUser(utx, pos, st, act, user) ==
    IF pos > Len(utx) THEN st
    ELSE IF utx[pos] \in st.used THEN BudgetScanUser(utx, pos + 1, st, act, user)
    ELSE LET window_txns == BudgetWindowTxns(utx, utx[pos], st.used)
             window_total == SumAmounts(window_txns)
             hit == Qualifies(window_total, activations[act].minimum_spend)
             new_count == IF hit THEN st.count + 1 ELSE st.count
             new_used == IF hit THEN UpdateUsed(st.used, window_txns) ELSE st.used
             entry == [act |-> act, user |-> user, anchor |-> utx[pos],
                       used_before |-> st.used, window |-> window_txns,
                       total |-> window_total, count_before |-> st.count,
                       used_after |-> new_used, count_after |-> new_count]
         IN BudgetScanUser(utx, pos + 1,
                [count |-> new_count, used |-> new_used, log |-> Append(st.log, entry)],
                act, user)

RECURSIVE BudgetScanUsers(_, _, _, _, _)
\* line 644: for user_id in group_txns['user_id'].unique()
BudgetScanUsers(group_txns, users, k, st, act) ==
    IF k > Len(users) THEN st
    ELSE LET r == BudgetScanUser(SortByTs(TxnsOfUser(group_txns, users[k])), 1,
                                 [count |-> st.count, used |-> {}, log |-> st.log],
                                 act, users[k])
         IN BudgetScanUsers(group_txns, users, k + 1, r, act)

\* lines 627-668 for one activation: its count of redemptions and its windows
BudgetOfActivation(act) ==
    LET group_act == activations[act]
        group_txns == TxnsBetween(ActKey(act), group_act.start_dt, group_act.end_dt)
    IN BudgetScanUsers(group_txns, UsersOf(group_txns), 1,
                       [count |-> 0, used |-> {}, log |-> <<>>], act)

RECURSIVE GroupSpend(_, _, _)
\* lines 616-668: total_group_spend and the windows behind it
GroupSpend(i, restaurant_group_id, budget_start_date) ==
    IF i > Len(activations) THEN [spend |-> 0, log |-> <<>>]
    ELSE LET rest == GroupSpend(i + 1, restaurant_group_id, budget_start_date)
         IN IF SameGroup(activations[i], restaurant_group_id)
               /\ CountsForBudget(activations[i], budget_start_date)
            THEN LET r == BudgetOfActivation(i)
                 IN [spend |-> r.count * activations[i].reward_amount + rest.spend,
                     log |-> r.log \o rest.log]
            ELSE rest

\* variant: the spend is subtracted from any initial budget
RemainingBudgetUnguarded(initial_budget, total_group_spend) ==
    initial_budget - total_group_spend
\* line 670
RemainingBudget(initial_budget, total_group_spend) ==
    IF initial_budget > 0 THEN initial_budget - total_group_spend ELSE 0

\* ------------------------------------------------------------------------
\* Groupings (lines 363-433)
\* ------------------------------------------------------------------------
GroupingKey(a) == <<a.restaurant_name, a.location_name, a.minimum_spend, a.reward_amount>>

KeyBefore(k1, k2) ==
    \/ NameRank(k1[1]) < NameRank(k2[1])
    \/ /\ k1[1] = k2[1]
       /\ \/ NameRank(k1[2]) < NameRank(k2[2])
          \/ /\ k1[2] = k2[2]
             /\ \/ k1[3] < k2[3]
                \/ k1[3] = k2[3] /\ k1[4] < k2[4]

RECURSIVE SortKeys(_)
SortKeys(S) ==
    IF S = {} THEN <<>>
    ELSE LET m == CHOOSE x \in S : \A y \in S \ {x} : KeyBefore(x, y)
         IN <<m>> \o SortKeys(S \ {m})

UniqueGroupings ==
    SortKeys({GroupingKey(activations[spend_activations[k]]) : k \in DOMAIN spend_activations})

\* the rows of one grouping, in the order of the input
GroupActivations(key) ==
    AscSeq({spend_activations[k] : k \in {j \in DOMAIN spend_activations :
                GroupingKey(activations[spend_activations[j]]) = key}})

\* lines 394-399: the single description, or the first shortest one
ChooseDescription(members) ==
    LET descs == UniqueSeq([k \in DOMAIN members |-> activations[members[k]].description])
        best == CHOOSE k \in DOMAIN descs :
                  /\ \A j \in DOMAIN descs : DescLen(descs[k]) <= DescLen(descs[j])
                  /\ \A j \in DOMAIN descs : j < k => DescLen(descs[j]) > DescLen(descs[k])
    IN descs[best]

\* lines 419-433
WeeksToAnalyze(overall_start_dt, overall_end_dt) ==
    (IF overall_start_dt <= WEEK1_END /\ overall_end_dt >= WEEK1_START
     THEN <<[week_label |-> "Week 1", week_start |-> WEEK1_START, week_end |-> WEEK1_END]>>
     ELSE <<>>)
    \o
    (IF overall_start_dt <= WEEK2_END /\ overall_end_dt >= WEEK2_START
     THEN <<[week_label |-> "Week 2", week_start |-> WEEK2_START, week_end |-> WEEK2_END]>>
     ELSE <<>>)

\* lines 382-433
ExtractGrouping(key) ==
    LET group_activations == GroupActivations(key)
        first_activation == activations[group_activations[1]]
        starts == {activations[group_activations[k]].start_dt : k \in DOMAIN group_activations}
        ends == {activations[group_activations[k]].end_dt : k \in DOMAIN group_activations}
    IN [grouping_key |-> key,
        restaurant_name |-> first_activation.restaurant_name,
        location_name |-> first_activation.location_name,
        restaurant_group_id |-> first_activation.restaurant_group_id,
        match_key |-> MatchKey(first_activation.restaurant_name, first_activation.location_name),
        minimum_spend |-> first_activation.minimum_spend,
        reward_amount |-> first_activation.reward_amount,
        initial_budget |-> first_activation.initial_budget,
        description |-> ChooseDescription(group_activations),
        activation_periods_list |->
            [k \in DOMAIN group_activations |->
                [start |-> activations[group_activations[k]].start_dt,
                 end |-> activations[group_activations[k]].end_dt,
                 id |-> activations[group_activations[k]].id]],
        overall_start_dt |-> SetMin(starts),
        overall_end_dt |-> SetMax(ends),
        activation_ids |-> [k \in DOMAIN group_activations |-> activations[group_activations[k]].id],
        weeks_to_analyze |-> WeeksToAnalyze(SetMin(starts), SetMax(ends))]

NoGrouping == [grouping_key |-> <<>>]

\* lines 704-710: sorted(active_days)
ActiveDays(periods) ==
    AscSeq(UNION {{day \in {DayFloor(periods[k].start) + n * DAY :
                              n \in 0..((DayFloor(periods[k].end) - DayFloor(periods[k].start)) \div DAY)} :
                     day <= DayFloor(periods[k].end)} : k \in DOMAIN periods})

\* ------------------------------------------------------------------------
\* C15: no qualifying activation
\* ------------------------------------------------------------------------
\* variant: the header of the empty weekly table without the budget column
WeeklyEmptyColumnsWithoutBudget ==
    <<"week", "activation_id", "restaurant_name", "location_name", "activation_description",
      "minimum_spend_threshold", "reward_amount", "activation_start", "activation_end",
      "unique_users_count", "unique_users_count_REDEEMED", "total_tpv", "tpv_vs_baseline",
      "median_check_vs_baseline", "marketing_spend", "new_users_count",
      "returning_users_count", "new_user_percentage", "notes">>
\* ------------------------------------------------------------------------
\* Output tables
\* ------------------------------------------------------------------------
\* lines 262-268
WeeklyEmptyColumns ==
    <<"week", "activation_id", "restaurant_name", "location_name", "activation_description",
      "minimum_spend_threshold", "reward_amount", "activation_start", "activation_end",
      "unique_users_count", "unique_users_count_REDEEMED", "total_tpv", "tpv_vs_baseline",
      "median_check_vs_baseline", "marketing_spend", "remaining_group_budget", "new_users_count",
      "returning_users_count", "new_user_percentage", "notes">>

\* lines 272-278
DailyEmptyColumns ==
    <<"date", "day_of_week", "activation_id", "restaurant_name", "location_name",
      "activation_description", "minimum_spend_threshold", "reward_amount", "activation_start",
      "activation_end", "unique_users_count", "unique_users_count_REDEEMED", "total_tpv",
      "tpv_vs_baseline", "median_check_vs_baseline", "marketing_spend", "remaining_group_budget",
      "new_users_count", "returning_users_count", "new_user_percentage", "notes">>

\* the keys of the dict of lines 676-697, in order
WeeklyRowKeys ==
    <<"week", "activation_id", "restaurant_name", "location_name", "activation_description",
      "minimum_spend_threshold", "reward_amount", "activation_start", "activation_end",
      "unique_users_count", "unique_users_count_REDEEMED", "total_tpv", "tpv_vs_baseline",
      "median_check_vs_baseline", "marketing_spend", "remaining_group_budget", "new_users_count",
      "returning_users_count", "new_user_percentage", "notes">>

\* the keys of the dict of lines 871-893, in order
DailyRowKeys ==
    <<"date", "day_of_week", "activation_id", "restaurant_name", "location_name",
      "activation_description", "minimum_spend_threshold", "reward_amount", "activation_start",
      "activation_end", "unique_users_count", "unique_users_count_REDEEMED", "total_tpv",
      "tpv_vs_baseline", "median_check_vs_baseline", "marketing_spend", "remaining_group_budget",
      "new_users_count", "returning_users_count", "new_user_percentage", "notes">>

NoFile == [written |-> FALSE, columns |-> <<>>, rows |-> <<>>]
\* pd.DataFrame(rows).to_csv: the columns are the keys of the rows
FileOf(rows, keys) ==
    [written |-> TRUE, columns |-> IF Len(rows) = 0 THEN <<>> ELSE keys, rows |-> rows]
EmptyFile(columns) == [written |-> TRUE, columns |-> columns, rows |-> <<>>]

DayNames == <<"Monday", "Tuesday", "Wednesday", "Thursday", "Friday", "Saturday", "Sunday">>

\* variant: one reward per redeemed user
MarketingSpendPerUser(redemptions, redeemed, reward_amount) ==
    Cardinality(redeemed) * reward_amount
\* qualifying_redemptions * reward_amount
MarketingSpend(redemptions, redeemed, reward_amount) == redemptions * reward_amount

\* the fields shared by the weekly and the daily row
RowCommon ==
    [activation_id |-> grp.activation_ids,
     restaurant_name |-> grp.restaurant_name,
     location_name |-> grp.location_name,
     activation_description |-> grp.description,
     minimum_spend_threshold |-> grp.minimum_spend,
     reward_amount |-> grp.reward_amount,
     activation_start |-> grp.overall_start_dt,
     activation_end |-> grp.overall_end_dt,
     unique_users_count |-> unique_users,
     unique_users_count_REDEEMED |-> unique_users_redeemed,
     total_tpv |-> IF has_transactions THEN total_tpv ELSE 0,
     tpv_vs_baseline |-> RoundOpt(tpv_vs_baseline),
     median_check_vs_baseline |-> RoundOpt(median_check_vs_baseline),
     marketing_spend |-> marketing_spend,
     remaining_group_budget |-> remaining_group_budget,
     new_users_count |-> new_users,
     returning_users_count |-> returning_users,
     new_user_percentage |-> RoundOpt(NewUserPercentage(new_users, unique_users)),
     notes |-> notes]

\* lines 676-697
WeeklyRow(week_label) == [week |-> week_label] @@ RowCommon
\* lines 871-893
DailyRow(current_day) ==
    [date |-> current_day, day_of_week |-> DayNames[Weekday(current_day) + 1]] @@ RowCommon

AuditEntry(kind, row, lo, hi) ==
    [kind |-> kind, row |-> row, grouping |-> grp, lo |-> lo, hi |-> hi,
     scope |-> matching_txns, windows |-> window_log,
     tpv_lift |-> tpv_vs_baseline, median_lift |-> median_check_vs_baseline,
     baseline |-> baseline_log, budget |-> budget_log]

\* ------------------------------------------------------------------------
\* Inputs
\* ------------------------------------------------------------------------
MaxTxns == 3
MaxActs == 2
MaxAmount == 2

\* Wednesday 2025-11-26 12:34:56: week 1 starts 2025-11-10, week 2 2025-11-17
CurrentDates == {6 * WEEK + 2 * DAY + 45296}
AnalysisStart0 == 4 * WEEK
\* Monday of week 1, 10:00
T0 == AnalysisStart0 + 10 * HOUR

\* a row of the transactions: the columns the script reads (lines 179-193,
\* 290-305) and, as one value, the other columns of the file
Txn(rest, loc, user, ts, amount) ==
    [rest_name |-> rest, location_name |-> loc, user_id |-> user,
     created_at_dt |-> ts, amount |-> amount, other_columns |-> 0]

\* a second record with the same restaurant, user, time and amount that
\* differs in another column of the file
OtherTxn(rest, loc, user, ts, amount) ==
    [Txn(rest, loc, user, ts, amount) EXCEPT !.other_columns = 1]

\* a row of the activations with the columns of lines 203-213
Act(id, rest, loc, group, start, end, desc, budget) ==
    [id |-> id, restaurant_name |-> rest, location_name |-> loc,
     restaurant_group_id |-> group, start_dt |-> start, end_dt |-> end,
     description |-> desc,
     minimum_spend |-> parse_spend_description(desc).minimum_spend,
     reward_amount |-> parse_spend_description(desc).reward_amount,
     initial_budget |-> budget]

\* the non-decreasing index sequences of length n over 1..k: one per multiset
Multisets(k, n) ==
    {s \in [1..n -> 1..k] : \A i \in 1..n : i < n => s[i] <= s[i + 1]}

\* the transactions of the given restaurants, users, times and amounts, as a list
TxnChoice(rests, users, times, amounts, c) ==
    LET u == ((c - 1) % Len(users)) + 1
        c2 == (c - 1) \div Len(users)
        t == (c2 % Len(times)) + 1
        c3 == c2 \div Len(times)
        a == (c3 % Len(amounts)) + 1
        r == (c3 \div Len(amounts)) + 1
    IN Txn(rests[r], "Main", users[u], times[t], amounts[a])

TxnChoices(rests, users, times, amounts) ==
    [c \in 1..(Len(rests) * Len(users) * Len(times) * Len(amounts)) |->
        TxnChoice(rests, users, times, amounts, c)]

\* the lists of at most maxn transactions taken from a list of choices
TxnLists(choices, maxn) ==
    UNION {{[i \in 1..n |-> choices[s[i]]] : s \in Multisets(Len(choices), n)} :
           n \in 0..maxn}

\* the sequences of 1..maxn distinct activations of a list
ActLists(choices, maxn) ==
    UNION {{[i \in 1..n |-> choices[s[i]]] :
              s \in {f \in [1..n -> 1..Len(choices)] :
                       \A i, j \in 1..n : i # j => f[i] # f[j]}} : n \in 1..maxn}

\* the subsequences of 1..maxn activations of a list
ActSubLists(choices, maxn) ==
    {[i \in 1..Len(ix) |-> choices[ix[i]]] :
        ix \in {AscSeq(S) : S \in {T \in SUBSET (1..Len(choices)) :
                                      Cardinality(T) \in 1..maxn}}}

\* Monday of week 1, 10:00-14:00
ActMon == Act(1, "Cafe", "Main", 1, T0, T0 + 4 * HOUR, DescShort, 5)
\* Wednesday of week 1, same terms, another wording
ActWed == Act(2, "Cafe", "Main", 1, T0 + 2 * DAY, T0 + 2 * DAY + 4 * HOUR, DescLong, 5)
\* Monday of week 2
ActMonW2 == Act(3, "Cafe", "Main", 1, T0 + WEEK, T0 + WEEK + 4 * HOUR, DescShort, 5)
\* Sunday 22:00 before week 1 to Monday 02:00
ActSunday == Act(4, "Cafe", "Main", 1, AnalysisStart0 - 2 * HOUR, AnalysisStart0 + 2 * HOUR,
                 DescShort, 5)
\* other terms at the same location, no budget
ActThree == Act(5, "Cafe", "Main", 1, T0, T0 + 4 * HOUR, DescThree, 0)
\* another offer type, the Monday before week 1; the regex reads its terms
ActOther == Act(6, "Cafe", "Main", 1, T0 - WEEK, T0 - WEEK + 4 * HOUR, DescOther, 5)
\* a 'Spend $' offer whose terms were not parsed, two weeks before week 1
ActUnparsed == Act(7, "Cafe", "Main", 1, T0 - 2 * WEEK, T0 - 2 * WEEK + 4 * HOUR,
                   DescUnparsed, 5)
\* an offer without a known end, three weeks before week 1
ActNoEnd == Act(8, "Cafe", "Main", 1, T0 - 3 * WEEK, NaT, DescOther, 5)
\* an offer that covers the four weeks before week 1
ActLongBefore == Act(9, "Cafe", "Main", 1, 0, AnalysisStart0 - 1, DescFree, 5)

\* the matcher at work: one activation, transactions around the hour
MatcherTimes == <<T0, T0 + 30 * MINUTE, T0 + HOUR, T0 + HOUR + MINUTE>>
MatcherScenarios ==
    {[acts |-> <<ActMon>>, txns |-> t] :
        t \in TxnLists(TxnChoices(<<"Cafe">>, <<1>>, MatcherTimes, <<1, MaxAmount>>)
                       \o TxnChoices(<<"Cafe">>, <<2>>, <<T0>>, <<MaxAmount>>), MaxTxns)}

\* groupings of several member intervals; transactions inside, between and
\* outside them
ScopeActs == <<ActMon, ActWed, ActMonW2>>
ScopeTimes == <<T0 + HOUR, T0 + DAY, T0 + 2 * DAY + HOUR, T0 + WEEK + HOUR>>
ScopeScenarios ==
    {[acts |-> a, txns |-> t] :
        a \in ActLists(ScopeActs, MaxActs),
        t \in TxnLists(TxnChoices(<<"Cafe">>, <<1>>, ScopeTimes, <<MaxAmount>>)
                       \o TxnChoices(<<"Cafe">>, <<2>>, <<T0 + WEEK + HOUR>>, <<MaxAmount>>),
                       MaxTxns - 1)}

\* one scored Monday with a transaction, the four Mondays before with and
\* without transactions and other activations
BaselineActLists ==
    {<<ActMon>>, <<ActMon, ActOther>>, <<ActMon, ActUnparsed>>, <<ActMon, ActNoEnd>>,
     <<ActMon, ActLongBefore>>}
BaselineTimes == <<T0 - 4 * WEEK + HOUR, T0 - 3 * WEEK + HOUR, T0 - 2 * WEEK + HOUR,
                   T0 - WEEK + HOUR>>
BaselineTxns ==
    TxnLists(TxnChoices(<<"Cafe">>, <<1>>, BaselineTimes, <<0, MaxAmount>>)
             \o TxnChoices(<<"Cafe">>, <<1>>, <<T0 - WEEK + HOUR>>, <<1>>), MaxTxns - 1)
BaselineScenarios ==
    {[acts |-> a, txns |-> <<Txn("Cafe", "Main", 1, T0 + HOUR, MaxAmount)>> \o t] :
        a \in BaselineActLists, t \in BaselineTxns}
    \cup {[acts |-> <<ActMon>>, txns |-> <<Txn("Cafe", "Main", 1, T0 + HOUR, 0)>> \o t] :
            t \in BaselineTxns}

\* restaurant groups: a scored activation and other activations of the same
\* or another group, at the same or another restaurant, before and after the
\* budget cutoff
ActSpectator == Act(10, SpectatorName, "Main", 1, T0, T0 + 4 * HOUR, DescShort, 5)
ActBistro == Act(11, "Bistro", "Main", 1, T0, T0 + 4 * HOUR, DescTwoTwo, 5)
ActBistroOtherGroup == Act(12, "Bistro", "Main", 2, T0, T0 + 4 * HOUR, DescTwoTwo, 5)
\* Monday 2025-10-06, before every cutoff
ActOld == Act(13, "Cafe", "Main", 1, 10 * HOUR - WEEK, 14 * HOUR - WEEK, DescShort, 5)
\* Monday 2025-10-20, between the two cutoffs
ActEarly == Act(14, "Cafe", "Main", 1, WEEK + 10 * HOUR, WEEK + 14 * HOUR, DescShort, 5)
BudgetScored == {ActMon, ActSpectator}
BudgetOthers == <<ActBistro, ActBistroOtherGroup, ActOld, ActEarly>>
BudgetScenarios ==
    {[acts |-> <<a>> \o b, txns |-> t] :
        a \in BudgetScored,
        b \in ActSubLists(BudgetOthers, MaxActs - 1),
        t \in TxnLists(TxnChoices(<<"Cafe">>, <<1>>,
                                  <<11 * HOUR - WEEK, WEEK + 11 * HOUR, T0 + HOUR>>,
                                  <<MaxAmount>>)
                       \o TxnChoices(<<"Bistro">>, <<1>>, <<T0 + HOUR>>, <<MaxAmount>>),
                       MaxTxns - 1)}

\* a 'Spend $' offer of week 1 whose start was not parsed
ActNoStart == Act(15, "Cafe", "Main", 1, NaT, T0 + 4 * HOUR, DescShort, 5)
\* a 'Spend $' offer from the Monday before week 1 whose end was not parsed
ActSpendNoEnd == Act(16, "Cafe", "Main", 1, T0 - WEEK, NaT, DescShort, 5)

\* no scored activation at all; an activation that starts before the analysis
\* period; two groupings at one location; offers and transactions whose
\* dates were not parsed; an offer of the analysis period without terms; one
\* location under two spellings
\* a 'Spend $' offer of week 1 whose terms were not parsed
ActUnparsedInWeek == Act(17, "Cafe", "Main", 1, T0 + DAY, T0 + DAY + 4 * HOUR,
                         DescUnparsed, 5)

\* the Wednesday offer under another spelling of the restaurant's name
ActWedSpelled == Act(18, "cafe ", "Main", 1, T0 + 2 * DAY, T0 + 2 * DAY + 4 * HOUR,
                     DescLong, 5)

EdgeActLists ==
    {<<ActOther>>, <<ActSunday>>, <<ActMon, ActThree>>, <<ActThree, ActMon>>,
     <<ActMon, ActNoStart>>, <<ActMon, ActSpendNoEnd>>, <<ActNoStart>>,
     <<ActUnparsedInWeek, ActMon>>, <<ActMon, ActWedSpelled>>}
EdgeScenarios ==
    {[acts |-> a, txns |-> t] :
        a \in EdgeActLists,
        t \in TxnLists(TxnChoices(<<"Cafe">>, <<1>>,
                                  <<AnalysisStart0 - HOUR, AnalysisStart0 + HOUR, T0 + HOUR,
                                    T0 - WEEK + HOUR, NaT>>,
                                  <<MaxAmount>>)
                       \o TxnChoices(<<"Cafe">>, <<NanUser>>, <<T0 + HOUR>>, <<MaxAmount>>),
                       MaxTxns - 1)}

\* anchors below the threshold: amounts of 0 and 1 at one timestamp or half an
\* hour apart, with or without a later transaction that qualifies alone
FoldTimes == <<T0, T0 + 30 * MINUTE>>
FoldScenarios ==
    {[acts |-> <<ActMon>>, txns |-> t \o c] :
        t \in TxnLists(TxnChoices(<<"Cafe">>, <<1>>, FoldTimes, <<0, 1>>), MaxTxns - 1),
        c \in {<<>>, <<Txn("Cafe", "Main", 1, T0 + HOUR + MINUTE, MaxAmount)>>}}

\* Monday of week 1, 12:00-16:00: the terms of ActMon, overlapping it
ActMonLate == Act(19, "Cafe", "Main", 1, T0 + 2 * HOUR, T0 + 6 * HOUR, DescLong, 5)

\* a grouping of two overlapping member intervals, in both orders;
\* transactions in one, in both and in the week before; two records equal in
\* the columns read
OverlapChoices ==
    TxnChoices(<<"Cafe">>, <<1>>,
               <<T0 + HOUR, T0 + 3 * HOUR, T0 + 5 * HOUR, T0 - WEEK + 3 * HOUR>>,
               <<MaxAmount>>)
    \o <<OtherTxn("Cafe", "Main", 1, T0 + 3 * HOUR, MaxAmount)>>
OverlapScenarios ==
    {[acts |-> a, txns |-> t] :
        a \in {<<ActMon, ActMonLate>>, <<ActMonLate, ActMon>>},
        t \in TxnLists(OverlapChoices, MaxTxns - 1)}

Scenarios == MatcherScenarios \cup ScopeScenarios \cup BaselineScenarios
             \cup BudgetScenarios \cup EdgeScenarios \cup FoldScenarios
             \cup OverlapScenarios

NoRun == [written |-> FALSE]

\* contact_matching.py at rest
NoMatching ==
    /\ contacts = <<>>
    /\ claude_client = FALSE
    /\ candidate_matches = <<>>
    /\ verified_matches = <<>>
    /\ cm_pc = "idle"
    /\ cm_pos = 1
    /\ emails = <<>>

\* analysis.py before its first step
InitRun ==
    /\ pc = "filter"
    /\ spend_activations = <<>>
    /\ activation_periods = <<>>
    /\ transactions_sorted = <<>>
    /\ hist_pos = 1
    /\ user_first_transaction = <<>>
    /\ groupings = <<>>
    /\ g = 1
    /\ grp = NoGrouping
    /\ wk = 1
    /\ active_days = <<>>
    /\ d = 1
    /\ matching_txns = <<>>
    /\ user_queue = <<>>
    /\ cur_user = NanUser
    /\ user_txns = <<>>
    /\ scan_pos = 1
    /\ used_indices = {}
    /\ qualifying_redemptions = 0
    /\ redeemed_users = {}
    /\ marketing_spend = 0
    /\ unique_users_redeemed = 0
    /\ new_users = 0
    /\ returning_users = 0
    /\ tpv_vs_baseline = NoLift
    /\ median_check_vs_baseline = NoLift
    /\ remaining_group_budget = 0
    /\ effective_day_start = 0
    /\ effective_day_end = 0
    /\ weekly_results = <<>>
    /\ daily_results = <<>>
    /\ weekly_file = NoFile
    /\ daily_file = NoFile
    /\ audit = <<>>
    /\ window_log = <<>>
    /\ baseline_log = <<>>
    /\ budget_log = <<>>
    /\ run_no = 1
    /\ first_run = NoRun

Init ==
    /\ \E sc \in Scenarios : transactions = sc.txns /\ activations = sc.acts
    /\ current_date \in CurrentDates
    /\ NoMatching
    /\ InitRun

\* ------------------------------------------------------------------------
\* The script, step by step
\* ------------------------------------------------------------------------
\* lines 237-257
FilterActivations ==
    /\ pc = "filter"
    /\ spend_activations' = FilteredActivations
    /\ pc' = IF Len(FilteredActivations) = 0 THEN "empty" ELSE "exclusion"
    /\ UNCHANGED <<inputVars, runVars, matchVars, activation_periods, transactions_sorted, hist_pos,
                   user_first_transaction, loopVars, scanVars, scopeVars,
                   budgetVars, dayVars, outVars>>

\* lines 257-282
EmptyOutput ==
    /\ pc = "empty"
    /\ weekly_file' = EmptyFile(WeeklyEmptyColumns)
    /\ daily_file' = EmptyFile(DailyEmptyColumns)
    /\ pc' = "done"
    /\ UNCHANGED <<inputVars, runVars, matchVars, indexVars, loopVars, scanVars, scopeVars,
                   budgetVars, dayVars, weekly_results, daily_results, audit>>

\* lines 313-320
BuildExclusion ==
    /\ pc = "exclusion"
    /\ activation_periods' = BuildActivationPeriods
    /\ pc' = "sort"
    /\ UNCHANGED <<inputVars, runVars, matchVars, spend_activations, transactions_sorted, hist_pos,
                   user_first_transaction, loopVars, scanVars, scopeVars,
                   budgetVars, dayVars, outVars>>

\* line 340
SortTransactions ==
    /\ pc = "sort"
    /\ \E o \in SortedOrders(DOMAIN transactions) : transactions_sorted' = o
    /\ hist_pos' = 1
    /\ pc' = "history"
    /\ UNCHANGED <<inputVars, runVars, matchVars, spend_activations, activation_periods,
                   user_first_transaction, loopVars, scanVars, scopeVars,
                   budgetVars, dayVars, outVars>>

\* lines 345-355, one row; an entry under a NaN user_id is never found again
\* by a lookup (NaN differs from itself), so it is not kept
HistoryStep ==
    /\ pc = "history"
    /\ hist_pos <= Len(transactions_sorted)
    /\ LET txn == transactions[transactions_sorted[hist_pos]]
           key == HistoryKey(MatchKey(txn.rest_name, txn.location_name), txn.user_id)
       IN user_first_transaction' =
            IF IsNaT(txn.created_at_dt) THEN user_first_transaction
            ELSE IF key \in DOMAIN user_first_transaction \/ txn.user_id = NanUser
                 THEN user_first_transaction
                 ELSE (key :> txn.created_at_dt) @@ user_first_transaction
    /\ hist_pos' = hist_pos + 1
    /\ UNCHANGED <<inputVars, runVars, matchVars, pc, spend_activations, activation_periods,
                   transactions_sorted, loopVars, scanVars, scopeVars,
                   budgetVars, dayVars, outVars>>

\* lines 364-376; transactions_sorted is read by the loop of lines 345-355
\* only and is dropped here
MakeGroupings ==
    /\ pc = "history"
    /\ hist_pos > Len(transactions_sorted)
    /\ groupings' = UniqueGroupings
    /\ g' = 1
    /\ pc' = "grouping"
    /\ transactions_sorted' = <<>>
    /\ UNCHANGED <<inputVars, runVars, matchVars, spend_activations, activation_periods, hist_pos,
                   user_first_transaction, grp, wk, active_days, d, scanVars,
                   scopeVars, budgetVars, dayVars, outVars>>

\* lines 378-433
StartGrouping ==
    /\ pc = "grouping"
    /\ g <= Len(groupings)
    /\ grp' = ExtractGrouping(groupings[g])
    /\ wk' = 1
    /\ pc' = "week"
    /\ UNCHANGED <<inputVars, runVars, matchVars, indexVars, groupings, g, active_days, d, scanVars,
                   scopeVars, budgetVars, dayVars, outVars>>

\* lines 441-485 (weekly) and 721-764 (daily): the scope is collected and the
\* matcher's counters start from zero
EnterScope(txns) ==
    /\ matching_txns' = txns
    /\ user_queue' = UsersOf(txns)
    /\ cur_user' = NanUser
    /\ user_txns' = <<>>
    /\ scan_pos' = 1
    /\ used_indices' = {}
    /\ qualifying_redemptions' = 0
    /\ redeemed_users' = {}
    /\ window_log' = <<>>

\* lines 436-485
WeeklyCollect ==
    /\ pc = "week"
    /\ wk <= Len(grp.weeks_to_analyze)
    /\ LET week_info == grp.weeks_to_analyze[wk]
       IN EnterScope(drop_duplicates(WeeklyConcat(grp.activation_periods_list, 1,
                        grp.match_key, week_info.week_start, week_info.week_end)))
    /\ pc' = "w_match"
    /\ UNCHANGED <<inputVars, runVars, matchVars, indexVars, loopVars, marketing_spend,
                   unique_users_redeemed, new_users, returning_users,
                   tpv_vs_baseline, median_check_vs_baseline, baseline_log,
                   budgetVars, dayVars, outVars>>

\* lines 487-491 (weekly) and 766-770 (daily): the next user of unique(), the
\* user's rows sorted by timestamp, a fresh used_indices
UserStart ==
    /\ scan_pos > Len(user_txns)
    /\ Len(user_queue) > 0
    /\ cur_user' = Head(user_queue)
    /\ user_queue' = Tail(user_queue)
    /\ \E o \in SortedOrders(TxnsOfUser(matching_txns, Head(user_queue))) : user_txns' = o
    /\ scan_pos' = 1
    /\ used_indices' = {}
    /\ UNCHANGED <<inputVars, runVars, matchVars, pc, indexVars, loopVars, qualifying_redemptions,
                   redeemed_users, window_log, scopeVars, budgetVars, dayVars, outVars>>

WeeklyUserStart == pc = "w_match" /\ UserStart

\* one iteration of `for idx, txn in user_txns.iterrows()` with the window
\* of the anchor given
MatchStep(window_txns, minimum_spend) ==
    /\ scan_pos <= Len(user_txns)
    /\ scan_pos' = scan_pos + 1
    /\ IF user_txns[scan_pos] \in used_indices
       THEN UNCHANGED <<used_indices, qualifying_redemptions, redeemed_users, window_log>>
       ELSE LET window_total == SumAmounts(window_txns)
                hit == Qualifies(window_total, minimum_spend)
            IN /\ qualifying_redemptions' =
                     IF hit THEN qualifying_redemptions + 1 ELSE qualifying_redemptions
               /\ redeemed_users' =
                     IF hit THEN redeemed_users \cup {cur_user} ELSE redeemed_users
               /\ used_indices' =
                     IF hit THEN UpdateUsed(used_indices, window_txns) ELSE used_indices
               /\ window_log' = Append(window_log,
                     [user |-> cur_user, anchor |-> user_txns[scan_pos],
                      used_before |-> used_indices, window |-> window_txns,
                      total |-> window_total,
                      count_before |-> qualifying_redemptions,
                      redeemed_before |-> redeemed_users,
                      used_after |-> used_indices',
                      count_after |-> qualifying_redemptions',
                      redeemed_after |-> redeemed_users'])
    /\ UNCHANGED <<inputVars, runVars, matchVars, pc, indexVars, loopVars, user_queue, cur_user,
                   user_txns, scopeVars, budgetVars, dayVars, outVars>>

\* lines 493-514
WeeklyMatchStep ==
    /\ pc = "w_match"
    /\ scan_pos <= Len(user_txns)
    /\ MatchStep(WeeklyWindowTxns(user_txns, user_txns[scan_pos], used_indices),
                 grp.minimum_spend)

\* lines 516-520 (weekly) and 794-798 (daily)
MatchDone ==
    /\ scan_pos > Len(user_txns)
    /\ Len(user_queue) = 0
    /\ marketing_spend' =
          IF has_transactions
          THEN MarketingSpend(qualifying_redemptions, redeemed_users, grp.reward_amount)
          ELSE 0
    /\ unique_users_redeemed' =
          IF has_transactions THEN Cardinality(redeemed_users) ELSE 0
    /\ UNCHANGED <<inputVars, runVars, matchVars, indexVars, loopVars, scanVars, matching_txns,
                   new_users, returning_users, tpv_vs_baseline,
                   median_check_vs_baseline, baseline_log, budgetVars, dayVars, outVars>>

WeeklyMatchDone == pc = "w_match" /\ MatchDone /\ pc' = "w_classify"

\* lines 522-549 (weekly) and 800-827 (daily)
Classify ==
    /\ new_users' = IF has_transactions
                    THEN NewUsers(matching_txns, grp.match_key, grp.activation_periods_list)
                    ELSE 0
    /\ returning_users' = IF has_transactions
                          THEN ReturningUsers(matching_txns, grp.match_key,
                                              grp.activation_periods_list)
                          ELSE 0
    /\ user_first_transaction' =
          IF has_transactions
          THEN HistoryAfterLookups(user_first_transaction,
                                   {HistoryKey(grp.match_key, u) :
                                       u \in Range(UsersOf(matching_txns))})
          ELSE user_first_transaction
    /\ UNCHANGED <<inputVars, runVars, matchVars, spend_activations, activation_periods,
                   transactions_sorted, hist_pos, loopVars, scanVars, matching_txns,
                   marketing_spend, unique_users_redeemed, tpv_vs_baseline,
                   median_check_vs_baseline, baseline_log, budgetVars, dayVars, outVars>>

WeeklyClassify == pc = "w_classify" /\ Classify /\ pc' = "w_baseline"

\* lines 555-595 (weekly) and 829-868 (daily) for the window [lo, hi]
Baseline(lo, hi) ==
    LET ws == IF has_transactions THEN BaselineWindows(grp.match_key, lo, hi) ELSE <<>>
    IN /\ baseline_log' = ws
       /\ tpv_vs_baseline' = IF has_transactions
                             THEN TpvLift(total_tpv, BaselineTpvValues(ws)) ELSE NoLift
       /\ median_check_vs_baseline' =
             IF has_transactions
             THEN MedianLift(median_check, BaselineMedianValues(ws)) ELSE NoLift
       /\ activation_periods' =
             IF has_transactions THEN PeriodsAfterLookup(activation_periods, grp.match_key)
             ELSE activation_periods
       /\ UNCHANGED <<inputVars, runVars, matchVars, spend_activations, transactions_sorted,
                      hist_pos, user_first_transaction, loopVars, scanVars, matching_txns,
                      marketing_spend, unique_users_redeemed, new_users,
                      returning_users, budgetVars, dayVars, outVars>>

WeeklyBaseline ==
    /\ pc = "w_baseline"
    /\ Baseline(grp.weeks_to_analyze[wk].week_start, grp.weeks_to_analyze[wk].week_end)
    /\ pc' = "w_budget"

\* lines 601-670
WeeklyBudget ==
    /\ pc = "w_budget"
    /\ LET r == GroupSpend(1, grp.restaurant_group_id, BudgetStartDate(grp.restaurant_name))
       IN /\ remaining_group_budget' = RemainingBudget(grp.initial_budget, r.spend)
          /\ budget_log' = r.log
    /\ pc' = "w_append"
    /\ UNCHANGED <<inputVars, runVars, matchVars, indexVars, loopVars, scanVars, scopeVars, dayVars, outVars>>

\* lines 676-697
WeeklyAppend ==
    /\ pc = "w_append"
    /\ LET week_info == grp.weeks_to_analyze[wk]
           row == WeeklyRow(week_info.week_label)
       IN /\ weekly_results' = Append(weekly_results, row)
          /\ audit' = Append(audit, AuditEntry("weekly", row, week_info.week_start,
                                               week_info.week_end))
    /\ wk' = wk + 1
    /\ pc' = "week"
    /\ UNCHANGED <<inputVars, runVars, matchVars, indexVars, groupings, g, grp, active_days, d, scanVars,
                   scopeVars, budgetVars, dayVars, daily_results, weekly_file, daily_file>>

\* lines 704-713
StartDaily ==
    /\ pc = "week"
    /\ wk > Len(grp.weeks_to_analyze)
    /\ active_days' = ActiveDays(grp.activation_periods_list)
    /\ d' = 1
    /\ pc' = "day"
    /\ UNCHANGED <<inputVars, runVars, matchVars, indexVars, groupings, g, grp, wk, scanVars, scopeVars,
                   budgetVars, dayVars, outVars>>

DayStart(current_day) == current_day
DayEnd(current_day) == current_day + DAY - 1
\* line 718
DayOutsideAnalysis(current_day) ==
    DayEnd(current_day) < ANALYSIS_START \/ DayStart(current_day) > ANALYSIS_END

\* lines 713-719: a day outside the analysis period
DailySkip ==
    /\ pc = "day"
    /\ d <= Len(active_days)
    /\ DayOutsideAnalysis(active_days[d])
    /\ d' = d + 1
    /\ UNCHANGED <<inputVars, runVars, matchVars, pc, indexVars, groupings, g, grp, wk, active_days,
                   scanVars, scopeVars, budgetVars, dayVars, outVars>>

\* lines 713-764; effective_day_start and effective_day_end keep the values of
\* the last period of the list
DailyCollect ==
    /\ pc = "day"
    /\ d <= Len(active_days)
    /\ ~DayOutsideAnalysis(active_days[d])
    /\ LET periods == grp.activation_periods_list
           day_start == DayStart(active_days[d])
           day_end == DayEnd(active_days[d])
       IN /\ EnterScope(drop_duplicates(DailyConcat(periods, 1, grp.match_key,
                                                    day_start, day_end)))
          /\ effective_day_start' = DayEffStart(periods[Len(periods)], day_start)
          /\ effective_day_end' = DayEffEnd(periods[Len(periods)], day_end)
    /\ pc' = "d_match"
    /\ UNCHANGED <<inputVars, runVars, matchVars, indexVars, loopVars, marketing_spend,
                   unique_users_redeemed, new_users, returning_users,
                   tpv_vs_baseline, median_check_vs_baseline, baseline_log,
                   budgetVars, outVars>>

DailyUserStart == pc = "d_match" /\ UserStart

\* lines 772-792
DailyMatchStep ==
    /\ pc = "d_match"
    /\ scan_pos <= Len(user_txns)
    /\ MatchStep(DailyWindowTxns(user_txns, user_txns[scan_pos], used_indices),
                 grp.minimum_spend)

DailyMatchDone == pc = "d_match" /\ MatchDone /\ pc' = "d_classify"

DailyClassify == pc = "d_classify" /\ Classify /\ pc' = "d_baseline"

\* lines 829-868
DailyBaseline ==
    /\ pc = "d_baseline"
    /\ Baseline(effective_day_start, effective_day_end)
    /\ pc' = "d_append"

\* lines 871-893
DailyAppend ==
    /\ pc = "d_append"
    /\ LET row == DailyRow(active_days[d])
       IN /\ daily_results' = Append(daily_results, row)
          /\ audit' = Append(audit, AuditEntry("daily", row, DayStart(active_days[d]),
                                               DayEnd(active_days[d])))
    /\ d' = d + 1
    /\ pc' = "day"
    /\ UNCHANGED <<inputVars, runVars, matchVars, indexVars, groupings, g, grp, wk, active_days, scanVars,
                   scopeVars, budgetVars, dayVars, weekly_results, weekly_file, daily_file>>

\* the end of the body of the loop of line 378
NextGrouping ==
    /\ pc = "day"
    /\ d > Len(active_days)
    /\ g' = g + 1
    /\ pc' = "grouping"
    /\ UNCHANGED <<inputVars, runVars, matchVars, indexVars, groupings, grp, wk, active_days, d, scanVars,
                   scopeVars, budgetVars, dayVars, outVars>>

\* lines 903-911
WriteOutput ==
    /\ pc = "grouping"
    /\ g > Len(groupings)
    /\ weekly_file' = FileOf(weekly_results, WeeklyRowKeys)
    /\ daily_file' = FileOf(daily_results, DailyRowKeys)
    /\ pc' = "done"
    /\ UNCHANGED <<inputVars, runVars, matchVars, indexVars, loopVars, scanVars, scopeVars, budgetVars,
                   dayVars, weekly_results, daily_results, audit>>

Next ==
    \/ FilterActivations
    \/ EmptyOutput
    \/ BuildExclusion
    \/ SortTransactions
    \/ HistoryStep
    \/ MakeGroupings
    \/ StartGrouping
    \/ WeeklyCollect
    \/ WeeklyUserStart
    \/ WeeklyMatchStep
    \/ WeeklyMatchDone
    \/ WeeklyClassify
    \/ WeeklyBaseline
    \/ WeeklyBudget
    \/ WeeklyAppend
    \/ StartDaily
    \/ DailySkip
    \/ DailyCollect
    \/ DailyUserStart
    \/ DailyMatchStep
    \/ DailyMatchDone
    \/ DailyClassify
    \/ DailyBaseline
    \/ DailyAppend
    \/ NextGrouping
    \/ WriteOutput

Spec == Init /\ [][Next]_vars

\* the script is started a second time on the same two files and the same
\* current date; the files the first run wrote are kept aside
SecondRun ==
    /\ pc = "done"
    /\ run_no = 1
    /\ run_no' = 2
    /\ first_run' = [written |-> TRUE, weekly_file |-> weekly_file,
                     daily_file |-> daily_file, audit |-> audit]
    /\ pc' = "filter"
    /\ spend_activations' = <<>>
    /\ activation_periods' = <<>>
    /\ transactions_sorted' = <<>>
    /\ hist_pos' = 1
    /\ user_first_transaction' = <<>>
    /\ groupings' = <<>>
    /\ g' = 1
    /\ grp' = NoGrouping
    /\ wk' = 1
    /\ active_days' = <<>>
    /\ d' = 1
    /\ matching_txns' = <<>>
    /\ user_queue' = <<>>
    /\ cur_user' = NanUser
    /\ user_txns' = <<>>
    /\ scan_pos' = 1
    /\ used_indices' = {}
    /\ qualifying_redemptions' = 0
    /\ redeemed_users' = {}
    /\ marketing_spend' = 0
    /\ unique_users_redeemed' = 0
    /\ new_users' = 0
    /\ returning_users' = 0
    /\ tpv_vs_baseline' = NoLift
    /\ median_check_vs_baseline' = NoLift
    /\ remaining_group_budget' = 0
    /\ effective_day_start' = 0
    /\ effective_day_end' = 0
    /\ weekly_results' = <<>>
    /\ daily_results' = <<>>
    /\ weekly_file' = NoFile
    /\ daily_file' = NoFile
    /\ audit' = <<>>
    /\ window_log' = <<>>
    /\ baseline_log' = <<>>
    /\ budget_log' = <<>>
    /\ UNCHANGED <<inputVars, matchVars>>

NextTwice ==
    \/ Next
    \/ SecondRun

SpecTwice == Init /\ [][NextTwice]_vars

\* ------------------------------------------------------------------------
\* contact_matching.py: the contacts of one row of the weekly table
\* ------------------------------------------------------------------------
\* the variables of analysis.py, which this script leaves alone
analysisVars == <<inputVars, runVars, pc, indexVars, loopVars, scanVars, scopeVars,
                  budgetVars, dayVars, outVars>>

\* combined_name of the row (line 327): "Cafe" at "Main"
RowName == "Cafe Main"

\* scores are counted in ten-thousandths
\* fuzzy_match_score(RowName, name): the SequenceMatcher ratio of the
\* normalized names, 0 when one of them is empty
fuzzy_match_score(name) ==
    CASE name = "Cafe Main" -> 10000
      [] name = "Cafe" -> 6154
      [] name = "Cafe Roma" -> 7778
      [] name = "Bistro Main" -> 5000
      [] OTHER -> 0

\* reasoning_match_boost(RowName, name): containment 0.15, word overlap
\* 0.10 or 0.05, capped at 0.25
reasoning_match_boost(name) ==
    CASE name = "Cafe Main" -> 2500
      [] name = "Cafe" -> 2000
      [] OTHER -> 0

min_confidence == 7000
\* candidate_matches[:10]
TopCandidates == 10

\* lines 203-209
combined_score(name) == Min2(fuzzy_match_score(name) + reasoning_match_boost(name), 10000)

\* what the verification service can answer: NO_MATCH, MATCH with or without
\* a readable confidence, or an error
ClaudeConfidences == {5000, 8500, 10000}
Responses ==
    {[kind |-> "NO_MATCH", conf |-> NoneVal], [kind |-> "MATCH", conf |-> NoneVal],
     [kind |-> "error", conf |-> NoneVal]}
    \cup {[kind |-> "MATCH", conf |-> c] : c \in ClaudeConfidences}

\* verify_match_with_claude with a client: (is_match, confidence_adjustment)
verify_match_with_claude(resp) ==
    CASE resp.kind = "error" -> [is_match |-> TRUE, confidence_adj |-> 0]
      [] resp.kind = "NO_MATCH" -> [is_match |-> FALSE, confidence_adj |-> -10000]
      [] OTHER ->
           [is_match |-> TRUE,
            confidence_adj |-> IF resp.conf = NoneVal THEN 0
                               ELSE ((resp.conf - 8500) * 5) \div 10]

RECURSIVE SortByScore(_)
\* list.sort(key=fuzzy_score, reverse=True): descending, equal scores keep
\* their order
SortByScore(s) ==
    IF s = <<>> THEN <<>>
    ELSE LET h == Head(s)
             rest == SortByScore(Tail(s))
             Above(x) == x.fuzzy_score > h.fuzzy_score
             NotAbove(x) == x.fuzzy_score <= h.fuzzy_score
         IN SelectSeq(rest, Above) \o <<h>> \o SelectSeq(rest, NotAbove)

\* the contacts of all_contacts.csv about this row
MaxContacts == 2
ContactChoices ==
    <<[restaurant_name |-> "Cafe Main", email_address |-> "owner@cafemain"],
      [restaurant_name |-> "Cafe Main", email_address |-> ""],
      [restaurant_name |-> "Cafe", email_address |-> "info@cafe"],
      [restaurant_name |-> "Cafe Roma", email_address |-> "ciao@caferoma"],
      [restaurant_name |-> "Bistro Main", email_address |-> "chef@bistro"],
      [restaurant_name |-> "", email_address |-> "nobody@nowhere"]>>
ContactLists ==
    UNION {[1..n -> Range(ContactChoices)] : n \in 0..MaxContacts}

\* find_matching_contacts is called for the row; analysis.py is at rest
InitContacts ==
    /\ transactions = <<>>
    /\ activations = <<>>
    /\ current_date \in CurrentDates
    /\ InitRun
    /\ contacts \in ContactLists
    /\ claude_client \in BOOLEAN
    /\ candidate_matches = <<>>
    /\ verified_matches = <<>>
    /\ cm_pc = "fuzzy"
    /\ cm_pos = 1
    /\ emails = <<>>

\* lines 196-217, one contact
FuzzyStep ==
    /\ cm_pc = "fuzzy"
    /\ cm_pos <= Len(contacts)
    /\ LET contact == contacts[cm_pos]
           score == combined_score(contact.restaurant_name)
       IN candidate_matches' =
            IF contact.restaurant_name # "" /\ score >= min_confidence
            THEN Append(candidate_matches,
                        [restaurant_name |-> contact.restaurant_name,
                         fuzzy_score |-> score, email |-> contact.email_address])
            ELSE candidate_matches
    /\ cm_pos' = cm_pos + 1
    /\ UNCHANGED <<analysisVars, contacts, claude_client, verified_matches, cm_pc, emails>>

\* line 220
SortCandidates ==
    /\ cm_pc = "fuzzy"
    /\ cm_pos > Len(contacts)
    /\ candidate_matches' = SortByScore(candidate_matches)
    /\ cm_pc' = "verify"
    /\ cm_pos' = 1
    /\ UNCHANGED <<analysisVars, contacts, claude_client, verified_matches, emails>>

\* lines 225-250, one candidate
VerifyStep ==
    /\ cm_pc = "verify"
    /\ cm_pos <= Min2(Len(candidate_matches), TopCandidates)
    /\ LET candidate == candidate_matches[cm_pos]
       IN IF claude_client
          THEN \E resp \in Responses :
                 LET v == verify_match_with_claude(resp)
                 IN verified_matches' =
                      IF v.is_match
                      THEN Append(verified_matches,
                                  [restaurant_name |-> candidate.restaurant_name,
                                   email |-> candidate.email,
                                   confidence |-> Min2(candidate.fuzzy_score + v.confidence_adj,
                                                       10000),
                                   claude_verified |-> TRUE])
                      ELSE verified_matches
          ELSE verified_matches' =
                 Append(verified_matches,
                        [restaurant_name |-> candidate.restaurant_name,
                         email |-> candidate.email,
                         confidence |-> candidate.fuzzy_score,
                         claude_verified |-> FALSE])
    /\ cm_pos' = cm_pos + 1
    /\ UNCHANGED <<analysisVars, contacts, claude_client, candidate_matches, cm_pc, emails>>

\* lines 252 and 355-359: the matches are returned and their emails collected
CollectEmails ==
    /\ cm_pc = "verify"
    /\ cm_pos > Min2(Len(candidate_matches), TopCandidates)
    /\ LET HasEmail(m) == m.email # ""
           with_email == SelectSeq(verified_matches, HasEmail)
       IN emails' = [k \in DOMAIN with_email |-> with_email[k].email]
    /\ cm_pc' = "done"
    /\ UNCHANGED <<analysisVars, contacts, claude_client, candidate_matches,
                   verified_matches, cm_pos>>

NextContacts ==
    \/ FuzzyStep
    \/ SortCandidates
    \/ VerifyStep
    \/ CollectEmails

SpecContacts == InitContacts /\ [][NextContacts]_vars

\* ------------------------------------------------------------------------
\* Properties
\* ------------------------------------------------------------------------
ScopePcs == {"w_match", "w_classify", "w_baseline", "w_budget", "w_append",
             "d_match", "d_classify", "d_baseline", "d_append"}

\* the matcher runs seen so far: those of the rows already stored and the
\* running one
MatcherRuns ==
    {[windows |-> audit[k].windows, scope |-> audit[k].scope,
      minimum_spend |-> audit[k].grouping.minimum_spend] : k \in DOMAIN audit}
    \cup (IF pc \in ScopePcs
          THEN {[windows |-> window_log, scope |-> matching_txns,
                 minimum_spend |-> grp.minimum_spend]}
          ELSE {})

\* an evaluated anchor that was counted as a redemption event
IsEvent(e) == e.count_after = e.count_before + 1
EventsOf(windows) == {k \in DOMAIN windows : IsEvent(windows[k])}

\* C1: in one run of the matcher over a scope, the consumed sets of any two
\* redemption events of the same user are disjoint
C1_NoDoubleConsumption ==
    \A run \in MatcherRuns :
        \A i, j \in EventsOf(run.windows) :
            (i # j /\ run.windows[i].user = run.windows[j].user)
                => run.windows[i].window \cap run.windows[j].window = {}

\* a user with two events in one scope, both consuming transactions
C1_Witness ==
    \E k \in DOMAIN audit :
        \E i, j \in EventsOf(audit[k].windows) :
            /\ i # j
            /\ audit[k].windows[i].user = audit[k].windows[j].user
            /\ Cardinality(audit[k].windows[i].window) >= 2
            /\ audit[k].windows[j].window # {}

\* the user's not-yet-consumed transactions of the scope in [anchor, anchor + 1h]
OpenHour(scope, e) ==
    {i \in Range(scope) :
        /\ transactions[i].user_id = e.user
        /\ i \notin e.used_before
        /\ transactions[i].created_at_dt >= transactions[e.anchor].created_at_dt
        /\ transactions[i].created_at_dt <= transactions[e.anchor].created_at_dt + 60 * MINUTE}

\* C2: an anchor is counted iff the sum of the user's not-yet-consumed
\* transactions in [anchor, anchor + 1 hour] reaches min_spend; a window below
\* min_spend changes neither the count, nor the redeemed users, nor the
\* consumed set
C2_ThresholdCorrectness ==
    \A run \in MatcherRuns :
        \A k \in DOMAIN run.windows :
            LET e == run.windows[k]
                sum == SumAmounts(OpenHour(run.scope, e))
            IN /\ IsEvent(e) <=> sum >= run.minimum_spend
               /\ sum < run.minimum_spend =>
                    /\ e.count_after = e.count_before
                    /\ e.redeemed_after = e.redeemed_before
                    /\ e.used_after = e.used_before
               /\ sum >= run.minimum_spend => e.user \in e.redeemed_after

\* a scope with a rejected anchor (0 < sum < min_spend) and an event whose sum
\* is exactly min_spend
C2_Witness ==
    \E k \in DOMAIN audit :
        /\ \E i \in DOMAIN audit[k].windows :
              /\ ~IsEvent(audit[k].windows[i])
              /\ audit[k].windows[i].total > 0
        /\ \E j \in EventsOf(audit[k].windows) :
              audit[k].windows[j].total = audit[k].grouping.minimum_spend

\* the runs of the budget matcher seen so far: one per activation of the log
BudgetLogs == {audit[k].budget : k \in DOMAIN audit} \cup {budget_log}

\* the rows of the input at the location of activation act inside its own
\* [start, end]
OwnTxns(act) ==
    {i \in DOMAIN transactions :
        /\ TxnKey(i) = ActKey(act)
        /\ transactions[i].created_at_dt # NaT
        /\ activations[act].start_dt # NaT
        /\ activations[act].end_dt # NaT
        /\ transactions[i].created_at_dt >= activations[act].start_dt
        /\ transactions[i].created_at_dt <= activations[act].end_dt}

\* what C3 asks of one evaluated anchor e whose user has the rows pool
BoundaryIncluded(e, pool, counted) ==
    LET anchor_ts == transactions[e.anchor].created_at_dt
    IN /\ \A i \in e.window :
             /\ transactions[i].created_at_dt >= anchor_ts
             /\ transactions[i].created_at_dt <= anchor_ts + 60 * MINUTE
       /\ \A i \in pool :
             (/\ transactions[i].user_id = e.user
              /\ i \notin e.used_before
              /\ transactions[i].created_at_dt = anchor_ts + 60 * MINUTE)
                 => /\ i \in e.window
                    /\ e.total = SumAmounts(e.window)
                    /\ counted => i \in e.used_after

\* C3: a not-yet-consumed transaction of the user exactly 60 minutes after the
\* anchor is in the anchor's window, in its sum and, when the window counts,
\* consumed with it; no member of a window is earlier than the anchor or later
\* than anchor + 60 minutes; in the weekly, the daily and the budget matcher
C3_BoundaryInclusion ==
    /\ \A run \in MatcherRuns :
          \A k \in DOMAIN run.windows :
              BoundaryIncluded(run.windows[k], Range(run.scope), IsEvent(run.windows[k]))
    /\ \A log \in BudgetLogs :
          \A k \in DOMAIN log :
              BoundaryIncluded(log[k], OwnTxns(log[k].act), IsEvent(log[k]))

\* an event whose window holds a transaction exactly 60 minutes after its anchor
AtBoundary(e) ==
    /\ IsEvent(e)
    /\ \E i \in e.window :
          transactions[i].created_at_dt = transactions[e.anchor].created_at_dt + 60 * MINUTE

\* a weekly row, a daily row and a budget scan, each with such an event
C3_Witness ==
    /\ \E k \in DOMAIN audit :
          /\ audit[k].kind = "weekly"
          /\ \E i \in DOMAIN audit[k].windows : AtBoundary(audit[k].windows[i])
    /\ \E k \in DOMAIN audit :
          /\ audit[k].kind = "daily"
          /\ \E i \in DOMAIN audit[k].windows : AtBoundary(audit[k].windows[i])
          /\ \E i \in DOMAIN audit[k].budget : AtBoundary(audit[k].budget[i])

\* the anchors of a scope whose window reached min_spend
Redemptions(a) == {k \in DOMAIN a.windows : a.windows[k].total >= a.grouping.minimum_spend}

\* C4: the marketing_spend of every weekly and daily row is the number of
\* redemption events of its scope, over all users, times the grouping's reward;
\* a user never has more events than in-scope transactions
C4_MarketingSpend ==
    \A k \in DOMAIN audit :
        LET a == audit[k]
        IN /\ a.row.marketing_spend = Cardinality(Redemptions(a)) * a.grouping.reward_amount
           /\ \A u \in {a.windows[j].user : j \in DOMAIN a.windows} :
                 Cardinality({j \in Redemptions(a) : a.windows[j].user = u})
                     <= Cardinality({i \in DOMAIN a.scope :
                                        transactions[a.scope[i]].user_id = u})

\* a weekly and a daily row in which one user has two events
C4_Witness ==
    \A kind \in {"weekly", "daily"} :
        \E k \in DOMAIN audit :
            /\ audit[k].kind = kind
            /\ Cardinality(Redemptions(audit[k])) = 2
            /\ Cardinality({audit[k].windows[j].user : j \in Redemptions(audit[k])}) = 1
            /\ audit[k].row.marketing_spend = 2 * audit[k].grouping.reward_amount
            /\ audit[k].row.marketing_spend > 0

\* ------------------------------------------------------------------------
\* Scope, classification, baseline and budget of the rows
\* ------------------------------------------------------------------------
\* the member intervals of the grouping of a row
Members(a) == Range(a.grouping.activation_periods_list)

\* transaction i is at the location of the row's grouping, inside a member
\* interval and inside the reporting period [lo, hi] of the row
InMemberAndPeriod(a, i) ==
    /\ TxnKey(i) = a.grouping.match_key
    /\ transactions[i].created_at_dt # NaT
    /\ transactions[i].created_at_dt >= a.lo
    /\ transactions[i].created_at_dt <= a.hi
    /\ \E m \in Members(a) :
          /\ transactions[i].created_at_dt >= m.start
          /\ transactions[i].created_at_dt <= m.end

\* C5: what a weekly or daily row counts (unique users, total value, median,
\* redemption windows) comes from transactions at the grouping's location
\* inside a member interval intersected with the reporting period; the overall
\* span never admits a transaction
C5_UnionOfIntervalsScope ==
    \A k \in DOMAIN audit :
        LET a == audit[k]
        IN /\ \A i \in Range(a.scope) : InMemberAndPeriod(a, i)
           /\ a.row.total_tpv = SumSeq(AmountsOf(a.scope))
           /\ a.row.unique_users_count =
                 Cardinality({transactions[i].user_id : i \in Range(a.scope)} \ {NanUser})
           /\ \A j \in DOMAIN a.windows :
                 /\ a.windows[j].anchor \in Range(a.scope)
                 /\ a.windows[j].window \subseteq Range(a.scope)

\* a weekly row of a grouping of two intervals that counts a transaction and
\* leaves out one that lies between the intervals, inside the overall span
C5_Witness ==
    \E k \in DOMAIN audit :
        LET a == audit[k]
        IN /\ a.kind = "weekly"
           /\ Cardinality(Members(a)) >= 2
           /\ a.scope # <<>>
           /\ \E i \in DOMAIN transactions :
                 /\ TxnKey(i) = a.grouping.match_key
                 /\ transactions[i].created_at_dt >= a.grouping.overall_start_dt
                 /\ transactions[i].created_at_dt <= a.grouping.overall_end_dt
                 /\ transactions[i].created_at_dt >= a.lo
                 /\ transactions[i].created_at_dt <= a.hi
                 /\ i \notin Range(a.scope)
                 /\ a.row.total_tpv < SumSeq(AmountsOf(a.scope)) + transactions[i].amount

\* the user's first transaction at the location lies in a member interval
FirstSeenInMember(a, u) ==
    \E m \in Members(a) :
        /\ user_first_transaction[<<a.grouping.match_key, u>>] >= m.start
        /\ user_first_transaction[<<a.grouping.match_key, u>>] <= m.end

ScopeUsers(a) == {transactions[i].user_id : i \in Range(a.scope)}

\* C6: in a row whose users are all in the user history index, the new users
\* are exactly those whose first transaction at the location lies in a full
\* member interval of the grouping, whatever the reporting period of the row;
\* the others are returning
C6_NewUserConsistency ==
    \A k \in DOMAIN audit :
        LET a == audit[k]
        IN (\A u \in ScopeUsers(a) :
                <<a.grouping.match_key, u>> \in DOMAIN user_first_transaction)
           => /\ a.row.new_users_count =
                    Cardinality({u \in ScopeUsers(a) : FirstSeenInMember(a, u)})
              /\ a.row.returning_users_count =
                    Cardinality({u \in ScopeUsers(a) : ~FirstSeenInMember(a, u)})

\* a week-2 row that counts as new a user first seen in a member interval of
\* week 1, and a daily row that does the same
C6_Witness ==
    \A kind \in {"weekly", "daily"} :
        \E k \in DOMAIN audit :
            LET a == audit[k]
            IN /\ a.kind = kind
               /\ a.row.new_users_count = 1
               /\ \E u \in ScopeUsers(a) :
                     /\ <<a.grouping.match_key, u>> \in DOMAIN user_first_transaction
                     /\ user_first_transaction[<<a.grouping.match_key, u>>] < a.lo
                     /\ FirstSeenInMember(a, u)

\* activation i has a known start and end
KnownInterval(i) == activations[i].start_dt # NaT /\ activations[i].end_dt # NaT

\* a baseline window of a row meets the interval of an activation of the input
\* at the row's location
MeetsActivation(a, w) ==
    \E i \in DOMAIN activations :
        /\ KnownInterval(i)
        /\ ActKey(i) = a.grouping.match_key
        /\ ~(w.end < activations[i].start_dt \/ w.start > activations[i].end_dt)

IndexBuilt == pc \notin {"filter", "empty", "exclusion"} /\ spend_activations # <<>>

\* C7: a baseline window that meets an activation interval of the location
\* yields no sample, weekly and daily, for each of the four offsets; the index
\* holds the interval of every activation of the input with a known start and
\* end, scored or not, and nothing for an activation without start or end
C7_BaselineExclusion ==
    /\ \A k \in DOMAIN audit :
          \A j \in DOMAIN audit[k].baseline :
              LET w == audit[k].baseline[j]
              IN /\ w.week_offset \in 1..4
                 /\ MeetsActivation(audit[k], w) => (~w.sampled /\ w.txns = <<>>)
    /\ IndexBuilt =>
          /\ DOMAIN activation_periods = {ActKey(i) : i \in {j \in DOMAIN activations :
                                                              KnownInterval(j)}}
          /\ \A key \in DOMAIN activation_periods :
                {[start |-> activation_periods[key][n].start,
                  end |-> activation_periods[key][n].end] :
                     n \in DOMAIN activation_periods[key]}
                = {[start |-> activations[i].start_dt, end |-> activations[i].end_dt] :
                     i \in {j \in DOMAIN activations : KnownInterval(j) /\ ActKey(j) = key}}

\* a baseline window with transactions in it that yields no sample because an
\* activation that is not scored runs in it
C7_Witness ==
    \E k \in DOMAIN audit :
        \E j \in DOMAIN audit[k].baseline :
            LET a == audit[k]
                w == a.baseline[j]
            IN /\ ~w.sampled
               /\ \E i \in DOMAIN transactions :
                     /\ TxnKey(i) = a.grouping.match_key
                     /\ transactions[i].created_at_dt >= w.start
                     /\ transactions[i].created_at_dt <= w.end
               /\ \E i \in DOMAIN activations :
                     /\ i \notin Range(spend_activations)
                     /\ KnownInterval(i)
                     /\ ActKey(i) = a.grouping.match_key
                     /\ ~(w.end < activations[i].start_dt \/ w.start > activations[i].end_dt)

\* no transaction of the location lies in the window
EmptyWindow(a, w) ==
    \A i \in DOMAIN transactions :
        ~(/\ TxnKey(i) = a.grouping.match_key
          /\ transactions[i].created_at_dt # NaT
          /\ transactions[i].created_at_dt >= w.start
          /\ transactions[i].created_at_dt <= w.end)

\* C8: a row with transactions whose four baseline windows each meet an
\* activation interval or hold no transaction has both lift fields None, which
\* is not 0
C8_NoBaselineIsNone ==
    \A k \in DOMAIN audit :
        LET a == audit[k]
        IN (/\ a.scope # <<>>
            /\ \A j \in DOMAIN a.baseline :
                  MeetsActivation(a, a.baseline[j]) \/ EmptyWindow(a, a.baseline[j]))
           => /\ DOMAIN a.baseline = 1..4
              /\ a.tpv_lift.isNone
              /\ a.median_lift.isNone
              /\ a.row.tpv_vs_baseline = NoneRounded
              /\ a.row.median_check_vs_baseline = NoneRounded
              /\ NoneRounded # 0

\* a row with transactions whose four baseline windows all meet an activation,
\* one of them with transactions in it
C8_Witness ==
    \E k \in DOMAIN audit :
        LET a == audit[k]
        IN /\ a.scope # <<>>
           /\ DOMAIN a.baseline = 1..4
           /\ \A j \in DOMAIN a.baseline : MeetsActivation(a, a.baseline[j])
           /\ \E j \in DOMAIN a.baseline : ~EmptyWindow(a, a.baseline[j])
           /\ a.row.tpv_vs_baseline = NoneRounded
           /\ a.row.median_check_vs_baseline = NoneRounded

\* the baseline windows of a row that gave a sample, in the order of the offsets
Sampled(a) == AscSeq({j \in DOMAIN a.baseline : a.baseline[j].sampled})
WindowTotals(a) ==
    [n \in DOMAIN Sampled(a) |-> SumSeq(AmountsOf(a.baseline[Sampled(a)[n]].txns))]
\* twice the median of each sampled window
WindowMedians(a) ==
    [n \in DOMAIN Sampled(a) |-> Median2(AmountsOf(a.baseline[Sampled(a)[n]].txns))]

\* the fraction v is (actual - baseline) / baseline * 100, 0 or 999, for
\* actual = actual_n / d and baseline = baseline_n / d
IsLiftOf(v, actual_n, baseline_n) ==
    /\ ~v.isNone
    /\ v.val[2] > 0
    /\ baseline_n > 0 => v.val[1] * baseline_n = (actual_n - baseline_n) * 100 * v.val[2]
    /\ (baseline_n = 0 /\ actual_n = 0) => v.val[1] = 0
    /\ (baseline_n = 0 /\ actual_n > 0) => v.val[1] = 999 * v.val[2]

\* C9: in a row with transactions and at least one baseline sample the value
\* lift is that of the row's total against the mean of the window totals and
\* the check-size lift that of the row's median against the median of the
\* window medians: (actual - baseline) / baseline * 100 for baseline > 0, 0 for
\* baseline = actual = 0, 999 for baseline = 0 < actual; always a finite number
C9_LiftValue ==
    \A k \in DOMAIN audit :
        LET a == audit[k]
            n == Len(Sampled(a))
        IN (a.scope # <<>> /\ n > 0)
           => \* total * n against the sum of the window totals
              /\ IsLiftOf(a.tpv_lift, SumSeq(AmountsOf(a.scope)) * n, SumSeq(WindowTotals(a)))
              \* in quarters: 2 * (twice the median) against twice the median of
              \* the doubled window medians
              /\ IsLiftOf(a.median_lift, 2 * Median2(AmountsOf(a.scope)),
                          Median2(WindowMedians(a)))
              /\ a.row.tpv_vs_baseline = RoundHundredths(a.tpv_lift.val[1], a.tpv_lift.val[2])
              /\ a.row.median_check_vs_baseline =
                    RoundHundredths(a.median_lift.val[1], a.median_lift.val[2])

\* a row with two baseline samples of different totals, a positive baseline and
\* lifts other than 0
C9_Witness ==
    \E k \in DOMAIN audit :
        LET a == audit[k]
        IN /\ a.scope # <<>>
           /\ Len(Sampled(a)) = 2
           /\ WindowTotals(a)[1] # WindowTotals(a)[2]
           /\ SumSeq(WindowTotals(a)) > 0
           /\ ~a.tpv_lift.isNone /\ a.tpv_lift.val[1] # 0
           /\ ~a.median_lift.isNone /\ a.median_lift.val[1] # 0

\* the activations that accrue to the budget of the group of a row
Accruing(a) ==
    {i \in DOMAIN activations :
        /\ a.grouping.restaurant_group_id # NoneVal
        /\ activations[i].restaurant_group_id = a.grouping.restaurant_group_id
        /\ activations[i].minimum_spend # NoneVal
        /\ activations[i].reward_amount # NoneVal
        /\ activations[i].start_dt # NaT
        /\ activations[i].start_dt >= BudgetStartDate(a.grouping.restaurant_name)}

\* the events of the matcher over activation i in the budget scan of a row
BudgetEvents(a, i) ==
    {j \in DOMAIN a.budget :
        a.budget[j].act = i /\ a.budget[j].total >= activations[i].minimum_spend}

CumulativeSpend(a) ==
    LET acts == AscSeq(Accruing(a))
    IN SumSeq([n \in DOMAIN acts |->
                  Cardinality(BudgetEvents(a, acts[n])) * activations[acts[n]].reward_amount])

\* C10: with initial_budget > 0 the remaining budget of a row is the initial
\* budget less, over the group's activations with parsed terms that start at or
\* after the cutoff, the events of the matcher over the activation's own
\* interval, location and min_spend times the activation's own reward
C10_BudgetAccrual ==
    \A k \in DOMAIN audit :
        LET a == audit[k]
        IN a.grouping.initial_budget > 0
           => /\ a.row.remaining_group_budget = a.grouping.initial_budget - CumulativeSpend(a)
              /\ \A j \in DOMAIN a.budget :
                    LET e == a.budget[j]
                    IN /\ e.act \in Accruing(a)
                       /\ e.anchor \in OwnTxns(e.act)
                       /\ e.window \subseteq OwnTxns(e.act)
                       /\ \A i \in e.window : transactions[i].user_id = e.user
                       /\ e.total = SumAmounts(e.window)
                       /\ IsEvent(e) <=> e.total >= activations[e.act].minimum_spend
              \* every transaction of an accruing activation was an anchor or
              \* was consumed by an event
              /\ \A i \in Accruing(a) :
                    \A t \in OwnTxns(i) :
                        transactions[t].user_id # NanUser
                        => \E j \in DOMAIN a.budget :
                              /\ a.budget[j].act = i
                              /\ \/ a.budget[j].anchor = t
                                 \/ IsEvent(a.budget[j]) /\ t \in a.budget[j].window

\* a row whose budget is reduced by events of two activations of the group,
\* one of them not the scored one, each at its own reward
C10_Witness ==
    \E k \in DOMAIN audit :
        LET a == audit[k]
        IN /\ a.grouping.initial_budget > 0
           /\ \E i, j \in Accruing(a) :
                 /\ activations[i].reward_amount # activations[j].reward_amount
                 /\ BudgetEvents(a, i) # {}
                 /\ BudgetEvents(a, j) # {}
                 /\ a.row.remaining_group_budget =
                       a.grouping.initial_budget - activations[i].reward_amount
                                                 - activations[j].reward_amount

\* C11: a row of a grouping whose initial_budget is <= 0 has a remaining
\* budget of exactly 0, whatever the group has spent
C11_NoBudgetTracked ==
    \A k \in DOMAIN audit :
        audit[k].grouping.initial_budget <= 0 => audit[k].row.remaining_group_budget = 0

\* a weekly and a daily row of a grouping without budget whose group has spent
C11_Witness ==
    \A kind \in {"weekly", "daily"} :
        \E k \in DOMAIN audit :
            /\ audit[k].kind = kind
            /\ audit[k].grouping.initial_budget <= 0
            /\ CumulativeSpend(audit[k]) > 0
            /\ audit[k].row.remaining_group_budget = 0

\* the rows of the input of one location and user with a valid timestamp
DatedTxns(key) ==
    {i \in DOMAIN transactions :
        /\ <<TxnKey(i), transactions[i].user_id>> = key
        /\ transactions[i].created_at_dt # NaT}

HistoryBuilt ==
    /\ spend_activations # <<>>
    /\ pc \notin {"filter", "empty", "exclusion", "sort", "history"}

\* every stored first transaction is the earliest of the whole input
HistoryValuesAreMinima ==
    \A key \in DOMAIN user_first_transaction :
        /\ DatedTxns(key) # {}
        /\ \A i \in DatedTxns(key) :
              user_first_transaction[key] <= transactions[i].created_at_dt
        /\ \E i \in DatedTxns(key) :
              user_first_transaction[key] = transactions[i].created_at_dt

\* after the build every location and user with a dated transaction has an entry
HistoryComplete ==
    \A i \in DOMAIN transactions :
        (transactions[i].created_at_dt # NaT /\ transactions[i].user_id # NanUser)
            => <<TxnKey(i), transactions[i].user_id>> \in DOMAIN user_first_transaction

C13_Determinism ==
    (run_no = 2 /\ pc = "done")
        => /\ weekly_file = first_run.weekly_file
           /\ daily_file = first_run.daily_file

\* a finished second run with rows in both tables in which a redemption event
\* has another anchor than in the first run: transactions of equal timestamps
\* were scanned in another order
C13_Witness ==
    /\ run_no = 2
    /\ pc = "done"
    /\ weekly_file.rows # <<>>
    /\ daily_file.rows # <<>>
    /\ \E k \in DOMAIN audit :
          \E i \in DOMAIN audit[k].windows :
              /\ audit[k].windows[i].total >= audit[k].grouping.minimum_spend
              /\ i \in DOMAIN first_run.audit[k].windows
              /\ audit[k].windows[i].anchor # first_run.audit[k].windows[i].anchor

\* ------------------------------------------------------------------------
\* C14: periods without transactions
\* ------------------------------------------------------------------------
\* the accepted activations grouped with activation i (lines 364-371)
GroupOf(i) ==
    {j \in Range(spend_activations) :
        GroupingKey(activations[j]) = GroupingKey(activations[i])}

GroupStart(i) == SetMin({activations[j].start_dt : j \in GroupOf(i)})
GroupEnd(i) == SetMax({activations[j].end_dt : j \in GroupOf(i)})

\* the reporting weeks that overlap the grouping of activation i
ReportingWeeks(i) ==
    {w \in {[label |-> "Week 1", start |-> WEEK1_START, end |-> WEEK1_END],
            [label |-> "Week 2", start |-> WEEK2_START, end |-> WEEK2_END]} :
        GroupStart(i) <= w.end /\ GroupEnd(i) >= w.start}

\* the days of activation i that touch the analysis window
ReportingDays(i) ==
    {day \in {DayFloor(activations[i].start_dt) + n * DAY : n \in 0..(6 * 7)} :
        /\ day <= DayFloor(activations[i].end_dt)
        /\ day + DAY - 1 >= ANALYSIS_START
        /\ day <= ANALYSIS_END}

RowOf(kind, i, period) ==
    {k \in DOMAIN audit :
        /\ audit[k].kind = kind
        /\ i \in {m.id : m \in Members(audit[k])}
        /\ IF kind = "weekly" THEN audit[k].row.week = period
                              ELSE audit[k].row.date = period}

ZeroRow(row) ==
    /\ row.unique_users_count = 0
    /\ row.unique_users_count_REDEEMED = 0
    /\ row.total_tpv = 0
    /\ row.marketing_spend = 0
    /\ row.new_users_count = 0
    /\ row.returning_users_count = 0
    /\ row.tpv_vs_baseline = NoneRounded
    /\ row.median_check_vs_baseline = NoneRounded
    /\ row.new_user_percentage = NoneRounded
    /\ row.notes # ""

\* C14: every week that overlaps a grouping and every active day inside the
\* analysis window has its row, also when no transaction is in scope; a
\* row whose scope is empty shows 0 users, 0 redeemed users, total 0,
\* marketing spend 0, 0 new and 0 returning users, no lift, no new-user
\* percentage and a note; and a row carries a note exactly when its scope
\* is empty.
C14_ZeroTransactionPeriods ==
    /\ \A k \in DOMAIN audit :
          /\ (audit[k].row.notes # "") <=> (audit[k].scope = <<>>)
          /\ audit[k].scope = <<>> => ZeroRow(audit[k].row)
    /\ (pc = "done" /\ spend_activations # <<>>) =>
          \A i \in Range(spend_activations) :
              /\ \A w \in ReportingWeeks(i) : RowOf("weekly", activations[i].id, w.label) # {}
              /\ \A day \in ReportingDays(i) : RowOf("daily", activations[i].id, day) # {}

C14_Witness ==
    /\ pc = "done"
    /\ \A kind \in {"weekly", "daily"} :
          /\ \E k \in DOMAIN audit :
                audit[k].kind = kind /\ audit[k].scope = <<>> /\ ZeroRow(audit[k].row)
          /\ \E k \in DOMAIN audit :
                audit[k].kind = kind /\ audit[k].scope # <<>> /\ audit[k].row.notes = ""

NoSurvivor == pc = "done" /\ spend_activations = <<>>

\* the file is a header over rows that carry exactly the header's fields
WellFormed(file, keys) ==
    /\ file.written
    /\ file.columns = keys
    /\ \A k \in DOMAIN file.rows : DOMAIN file.rows[k] = Range(keys)

\* C15: when no activation passes the filters the run ends with both tables
\* written, without rows, under the 20 weekly and the 21 daily column names
\* that the rows of a run with activations carry, in the same order.
C15_EmptyOutput ==
    /\ NoSurvivor =>
          /\ WellFormed(weekly_file, WeeklyRowKeys) /\ weekly_file.rows = <<>>
          /\ WellFormed(daily_file, DailyRowKeys) /\ daily_file.rows = <<>>
          /\ Len(weekly_file.columns) = 20
          /\ Len(daily_file.columns) = 21
    /\ (pc = "done" /\ spend_activations # <<>>) =>
          /\ WellFormed(weekly_file, WeeklyRowKeys) /\ weekly_file.rows # <<>>
          /\ WellFormed(daily_file, DailyRowKeys) /\ daily_file.rows # <<>>
    /\ pc = "empty" => ENABLED EmptyOutput

C15_Witness ==
    /\ NoSurvivor
    /\ activations # <<>>
    /\ weekly_file.written /\ daily_file.written
    /\ weekly_file.rows = <<>> /\ daily_file.rows = <<>>

\* ------------------------------------------------------------------------
\* C16: dates that were not parsed
\* ------------------------------------------------------------------------
UndatedTxns == {i \in DOMAIN transactions : transactions[i].created_at_dt = NaT}
UndatedActs ==
    {i \in DOMAIN activations :
        activations[i].start_dt = NaT \/ activations[i].end_dt = NaT}

\* every log of the matcher, of the baseline and of the budget seen so far
AllWindowLogs == {audit[k].windows : k \in DOMAIN audit} \cup {window_log}
AllBaselineLogs == {audit[k].baseline : k \in DOMAIN audit} \cup {baseline_log}

UndatedTxnsUnused ==
    /\ \A key \in DOMAIN user_first_transaction :
          /\ user_first_transaction[key] # NaT
          /\ DatedTxns(key) # {}
    /\ Range(matching_txns) \cap UndatedTxns = {}
    /\ Range(user_txns) \cap UndatedTxns = {}
    /\ \A k \in DOMAIN audit : Range(audit[k].scope) \cap UndatedTxns = {}
    /\ \A log \in AllWindowLogs \cup BudgetLogs : \A n \in DOMAIN log :
          /\ log[n].anchor \notin UndatedTxns
          /\ log[n].window \cap UndatedTxns = {}
    /\ \A log \in AllBaselineLogs : \A n \in DOMAIN log :
          Range(log[n].txns) \cap UndatedTxns = {}

UndatedActsUnused ==
    /\ Range(spend_activations) \cap UndatedActs = {}
    /\ \A k \in DOMAIN audit : \A m \in Members(audit[k]) :
          /\ m.start # NaT /\ m.end # NaT
          /\ \A i \in UndatedActs : m.id # activations[i].id
    /\ grp # NoGrouping =>
          \A n \in DOMAIN grp.activation_periods_list :
              \A i \in UndatedActs : grp.activation_periods_list[n].id # activations[i].id
    /\ \A key \in DOMAIN activation_periods :
          /\ \A n \in DOMAIN activation_periods[key] :
                activation_periods[key][n].start # NaT /\ activation_periods[key][n].end # NaT
          /\ Len(activation_periods[key]) =
                Cardinality({i \in DOMAIN activations \ UndatedActs : ActKey(i) = key})

\* the steps that meet the rows without a date can be taken: the filters,
\* the exclusion index and the history loop pass over them, and the run that
\* has ended has written both files
UndatedNotFatal ==
    /\ pc = "filter" => ENABLED FilterActivations
    /\ pc = "exclusion" => ENABLED BuildExclusion
    /\ pc = "sort" => ENABLED SortTransactions
    /\ (pc = "history" /\ hist_pos <= Len(transactions_sorted)) => ENABLED HistoryStep
    /\ pc = "done" => weekly_file.written /\ daily_file.written

\* C16: a transaction without a parsed timestamp has no entry in the user
\* history, is in the scope of no row, in no window of the matcher, in no
\* baseline sample and in no window of the budget, and the run goes on to
\* its end; an activation without a parsed start or end is a member of no
\* scored grouping and has no interval in the exclusion index.
C16_UnparsedDatesDropped ==
    /\ UndatedTxnsUnused
    /\ UndatedActsUnused
    /\ UndatedNotFatal

C16_Witness ==
    /\ pc = "done"
    /\ \E i \in UndatedTxns : \E k \in DOMAIN audit :
          /\ TxnKey(i) = audit[k].grouping.match_key
          /\ audit[k].scope # <<>>
          /\ \A n \in Range(audit[k].scope) :
                transactions[n].user_id = transactions[i].user_id
    /\ \E i \in UndatedActs :
          /\ StartsWithSpend(activations[i].description)
          /\ activations[i].minimum_spend # NoneVal
          /\ \E k \in DOMAIN audit : ActKey(i) = audit[k].grouping.match_key

\* ------------------------------------------------------------------------
\* C17: which activations are scored
\* ------------------------------------------------------------------------
HasTerms(a) == a.minimum_spend # NoneVal /\ a.reward_amount # NoneVal
OverlapsAnalysis(a) ==
    /\ a.start_dt # NaT /\ a.end_dt # NaT
    /\ a.start_dt <= ANALYSIS_END
    /\ a.end_dt >= ANALYSIS_START

\* the ids of the members of the groupings built so far
MemberIds ==
    UNION {{m.id : m \in Members(audit[k])} : k \in DOMAIN audit}
    \cup (IF grp = NoGrouping THEN {}
          ELSE {grp.activation_periods_list[n].id : n \in DOMAIN grp.activation_periods_list})

\* the ids named by the rows of the two tables
RowIds ==
    UNION {Range(weekly_results[k].activation_id) : k \in DOMAIN weekly_results}
    \cup UNION {Range(daily_results[k].activation_id) : k \in DOMAIN daily_results}
    \cup UNION {Range(weekly_file.rows[k].activation_id) : k \in DOMAIN weekly_file.rows}
    \cup UNION {Range(daily_file.rows[k].activation_id) : k \in DOMAIN daily_file.rows}

\* C17: every member of a grouping has a minimum spend and a reward and an
\* interval with start <= ANALYSIS_END and end >= ANALYSIS_START; an
\* activation without minimum spend or reward, or whose interval does not
\* overlap the analysis period, is a member of no grouping and is named by
\* no row.
C17_RegistryAcceptance ==
    \A i \in DOMAIN activations :
        /\ activations[i].id \in MemberIds \cup RowIds
              => HasTerms(activations[i]) /\ OverlapsAnalysis(activations[i])
        /\ ~(HasTerms(activations[i]) /\ OverlapsAnalysis(activations[i]))
              => /\ i \notin Range(spend_activations)
                 /\ activations[i].id \notin MemberIds \cup RowIds

C17_Witness ==
    /\ pc = "done"
    /\ weekly_file.rows # <<>>
    /\ daily_file.rows # <<>>
    /\ MemberIds # {}
    /\ \E i \in DOMAIN activations :
          /\ StartsWithSpend(activations[i].description)
          /\ ~HasTerms(activations[i])
          /\ OverlapsAnalysis(activations[i])
          /\ activations[i].id \notin RowIds

\* ------------------------------------------------------------------------
\* C18: groupings
\* ------------------------------------------------------------------------
\* same location match key, same minimum spend, same reward
SameOffer(i, j) ==
    /\ ActKey(i) = ActKey(j)
    /\ activations[i].minimum_spend = activations[j].minimum_spend
    /\ activations[i].reward_amount = activations[j].reward_amount

MemberOf(i, a) == activations[i].id \in {m.id : m \in Members(a)}

\* two accepted activations of the same offer are members of the same rows
OneGroupingPerOffer ==
    \A i, j \in Range(spend_activations) :
        SameOffer(i, j) =>
            \A k \in DOMAIN audit : MemberOf(i, audit[k]) <=> MemberOf(j, audit[k])

\* every member carries its own activation's [start, end]
MemberIntervalsKept ==
    \A k \in DOMAIN audit :
        LET list == audit[k].grouping.activation_periods_list
        IN /\ \A n \in DOMAIN list : \E i \in Range(spend_activations) :
                 /\ activations[i].id = list[n].id
                 /\ activations[i].start_dt = list[n].start
                 /\ activations[i].end_dt = list[n].end
           /\ \A n, m \in DOMAIN list : n # m => list[n].id # list[m].id

\* the row shows a description of a member, and none of a member is shorter
ShortestDescription ==
    \A k \in DOMAIN audit :
        LET own == {i \in Range(spend_activations) : MemberOf(i, audit[k])}
        IN /\ \E i \in own : audit[k].row.activation_description = activations[i].description
           /\ \A i \in own : DescLen(audit[k].row.activation_description)
                                <= DescLen(activations[i].description)

\* C18: two accepted activations with the same location match key, the same
\* minimum spend and the same reward are members of one grouping and share
\* its rows; the grouping keeps the [start, end] of each member and shows the
\* shortest description of its members.
C18_GroupingCollapse ==
    /\ OneGroupingPerOffer
    /\ MemberIntervalsKept
    /\ ShortestDescription

\* what holds of the groupings as the script builds them
C18_MembersAndDescription ==
    /\ MemberIntervalsKept
    /\ ShortestDescription
    /\ \A i, j \in Range(spend_activations) :
          (SameOffer(i, j) /\ GroupingKey(activations[i]) = GroupingKey(activations[j])) =>
              \A k \in DOMAIN audit : MemberOf(i, audit[k]) <=> MemberOf(j, audit[k])

C18_SplitGrouping ==
    /\ pc = "done"
    /\ \E i, j \in Range(spend_activations) :
          /\ SameOffer(i, j)
          /\ \E k \in DOMAIN audit : MemberOf(i, audit[k]) /\ ~MemberOf(j, audit[k])

\* ------------------------------------------------------------------------
\* C19: the confidence of the contacts whose emails are written
\* ------------------------------------------------------------------------
AboveThreshold(m) == m.confidence >= min_confidence

\* C19: every match that find_matching_contacts returns has a confidence of
\* at least min_confidence (0.70), with and without verification, and every
\* email written for the row comes from such a match.
C19_ConfidenceThreshold ==
    /\ \A k \in DOMAIN verified_matches : AboveThreshold(verified_matches[k])
    /\ cm_pc = "done" =>
          \A n \in DOMAIN emails : \E k \in DOMAIN verified_matches :
              /\ verified_matches[k].email = emails[n]
              /\ AboveThreshold(verified_matches[k])

\* what holds: the fuzzy score of every candidate, and the confidence of
\* every match that was not adjusted by the verification
C19_FuzzyThreshold ==
    /\ \A k \in DOMAIN candidate_matches :
          candidate_matches[k].fuzzy_score >= min_confidence
    /\ ~claude_client =>
          \A k \in DOMAIN verified_matches : AboveThreshold(verified_matches[k])

\* an email is written whose only match is below the threshold
C19_EmailBelowThreshold ==
    /\ cm_pc = "done"
    /\ \E n \in DOMAIN emails :
          \A k \in DOMAIN verified_matches :
              verified_matches[k].email = emails[n] => ~AboveThreshold(verified_matches[k])

\* ------------------------------------------------------------------------
\* C20: the marketing spend as the report presents it
\* ------------------------------------------------------------------------
\* generate_week_section: "(based on N redemptions x $R reward)" with N the
\* row's unique_users_count_REDEEMED and R its reward_amount
ReportedSpendBasis(week_data) ==
    week_data.unique_users_count_REDEEMED * week_data.reward_amount

\* C20: in every weekly row the marketing spend is the number of redeemed
\* users times the reward, the product the report names as its basis.
C20_ReportConsistency ==
    \A k \in DOMAIN weekly_results :
        weekly_results[k].marketing_spend = ReportedSpendBasis(weekly_results[k])

\* a weekly row of the written file whose spend is above the product shown
C20_SpendAboveBasis ==
    /\ pc = "done"
    /\ \E k \in DOMAIN weekly_file.rows :
          /\ weekly_file.rows[k].unique_users_count_REDEEMED = 1
          /\ weekly_file.rows[k].marketing_spend = 2 * weekly_file.rows[k].reward_amount

\* what holds: the spend is never below the product, and equals it when no
\* user redeemed twice in the week
C20_SpendAtLeastBasis ==
    \A k \in DOMAIN audit :
        /\ audit[k].row.marketing_spend >= ReportedSpendBasis(audit[k].row)
        /\ audit[k].row.marketing_spend =
              Cardinality(EventsOf(audit[k].windows)) * audit[k].row.reward_amount

\* both indices are built: the script is in the loop over the groupings or
\* past it
Scoring == spend_activations # <<>> /\ pc \notin {"filter", "empty", "exclusion", "sort", "history"}

\* C21: once the user history and the exclusion index are built, no step of
\* the analysis of the periods, of the baseline or of the budget adds,
\* removes or changes an entry of either, also when the looked-up key has
\* no entry.
C21_IndicesReadOnly ==
    [][Scoring =>
          /\ activation_periods' = activation_periods
          /\ user_first_transaction' = user_first_transaction]_vars

\* a row was classified whose scope holds a user without an entry in the
\* history, and a baseline lookup was made
C21_Witness ==
    /\ pc = "done"
    /\ \E k \in DOMAIN audit :
          /\ \E i \in Range(audit[k].scope) :
                HistoryKey(audit[k].grouping.match_key, transactions[i].user_id)
                    \notin DOMAIN user_first_transaction
          /\ audit[k].baseline # <<>>

\* the logs of all scans of the matcher: the scopes of the rows and the
\* activations of the budget
ScanLogs == {run.windows : run \in MatcherRuns} \cup BudgetLogs

\* entries p < q of one log that belong to the same per-user scan (the budget
\* scans each user once per activation)
SameScan(log, p, q) ==
    /\ p < q
    /\ log[p].user = log[q].user
    /\ "act" \in DOMAIN log[p] => log[p].act = log[q].act

\* the timestamp of p's anchor lies in the hour of q's window
InHourOf(log, p, q) ==
    /\ Ts(log[p].anchor) >= Ts(log[q].anchor)
    /\ Ts(log[p].anchor) <= Ts(log[q].anchor) + HOUR

ScanPools ==
    {[log |-> run.windows, pool |-> [k \in DOMAIN run.windows |-> Range(run.scope)]] :
        run \in MatcherRuns}
    \cup {[log |-> log, pool |-> [k \in DOMAIN log |-> OwnTxns(log[k].act)]] :
            log \in BudgetLogs}

\* the user's not-yet-consumed rows of the pool in [anchor, anchor + 1 hour]
WholeHour(pool, e) ==
    {i \in pool :
        /\ transactions[i].user_id = e.user
        /\ i \notin e.used_before
        /\ Ts(i) >= Ts(e.anchor)
        /\ Ts(i) <= Ts(e.anchor) + HOUR}

\* C23: a counted anchor consumes every not-yet-consumed transaction of the
\* user in [anchor, anchor + 1 hour], also those not needed for min_spend, and
\* none of them anchors or joins a later window of the scan; an anchor that is
\* not counted leaves the consumed set unchanged
C23_WholeWindowConsumption ==
    \A s \in ScanPools :
        \A p \in DOMAIN s.log :
            LET e == s.log[p]
            IN /\ IsEvent(e) =>
                    /\ e.used_after = e.used_before \cup WholeHour(s.pool[p], e)
                    /\ \A q \in DOMAIN s.log :
                          SameScan(s.log, p, q) =>
                              /\ s.log[q].anchor \notin WholeHour(s.pool[p], e)
                              /\ s.log[q].window \cap WholeHour(s.pool[p], e) = {}
               /\ ~IsEvent(e) => e.used_after = e.used_before

\* an event whose anchor alone reaches min_spend and whose window holds
\* another transaction, followed by a later anchor of the same scan
C23_Witness ==
    \E k \in DOMAIN audit :
        LET log == audit[k].windows
        IN \E p, q \in DOMAIN log :
              /\ SameScan(log, p, q)
              /\ IsEvent(log[p])
              /\ transactions[log[p].anchor].amount >= audit[k].grouping.minimum_spend
              /\ Cardinality(log[p].window) >= 2

\* a per-user scan of a row is under way
InScan == pc \in {"w_match", "d_match"}

\* the anchors of one scan are taken in ascending order of timestamp, no row
\* is an anchor twice and no consumed row is an anchor
AnchorsInOrder(log) ==
    \A p, q \in DOMAIN log :
        /\ log[p].anchor \notin log[p].used_before
        /\ SameScan(log, p, q) =>
              /\ Ts(log[p].anchor) <= Ts(log[q].anchor)
              /\ log[p].anchor # log[q].anchor

\* the entries of a log about row i of the user: the events that consumed it
\* and the rejected windows it anchored
ConsumedBy(entries, i) == {e \in entries : IsEvent(e) /\ i \in e.window}
RejectedAt(entries, i) == {e \in entries : ~IsEvent(e) /\ e.anchor = i}

\* every row of a finished scan is consumed by exactly one event or was an
\* anchor whose window was rejected
Settled(entries, rows) ==
    \A i \in rows :
        \/ Cardinality(ConsumedBy(entries, i)) = 1 /\ RejectedAt(entries, i) = {}
        \/ ConsumedBy(entries, i) = {} /\ Cardinality(RejectedAt(entries, i)) = 1

\* the finished scans of the rows written so far, user by user
RowScansSettled ==
    \A k \in DOMAIN audit :
        \A u \in Range(UsersOf(audit[k].scope)) :
            Settled({e \in Range(audit[k].windows) : e.user = u},
                    TxnsOfUser(audit[k].scope, u))

\* the scans of the budget, user by user for every activation that was scanned
BudgetScansSettled ==
    \A log \in BudgetLogs :
        \A act \in {e.act : e \in Range(log)} :
            \A u \in {transactions[i].user_id : i \in OwnTxns(act)} :
                Settled({e \in Range(log) : e.act = act /\ e.user = u},
                        TxnsOfUser(AscSeq(OwnTxns(act)), u))

\* C24: the per-user scan ends: while rows of the user are left the next
\* step of the scan can be taken, every step moves one row forward in the
\* user's sorted rows and the scan is over after the last row; anchors are
\* taken in ascending timestamp order, each row at most once and never a
\* consumed one; after the scan every row of the user is consumed by exactly
\* one event or was an anchor whose window fell below min_spend
C24_ScanTerminates ==
    /\ [](InScan =>
            /\ scan_pos \in 1..(Len(user_txns) + 1)
            /\ scan_pos <= Len(user_txns) => ENABLED (WeeklyMatchStep \/ DailyMatchStep)
            /\ scan_pos > Len(user_txns) =>
                  ENABLED (WeeklyUserStart \/ DailyUserStart
                           \/ WeeklyMatchDone \/ DailyMatchDone))
    /\ [][(InScan /\ InScan' /\ user_queue' = user_queue) =>
             /\ scan_pos' = scan_pos + 1
             /\ user_txns' = user_txns]_vars
    /\ [][(InScan /\ InScan' /\ user_queue' # user_queue) =>
             Len(user_queue') = Len(user_queue) - 1]_vars
    /\ [](\A log \in ScanLogs : AnchorsInOrder(log))
    /\ [](RowScansSettled /\ BudgetScansSettled)

\* a finished run with a scan of three rows of one user: an event that
\* consumed two of them and a rejected anchor
C24_Witness ==
    /\ pc = "done"
    /\ \E k \in DOMAIN audit :
          \E u \in Range(UsersOf(audit[k].scope)) :
              LET entries == {e \in Range(audit[k].windows) : e.user = u}
              IN /\ Cardinality(TxnsOfUser(audit[k].scope, u)) >= 3
                 /\ \E e \in entries : IsEvent(e) /\ Cardinality(e.window) >= 2
                 /\ \E e \in entries : ~IsEvent(e)

\* the transaction records of the input that fall in the scope of a row
InScopeRecords(a) == {i \in DOMAIN transactions : InMemberAndPeriod(a, i)}

\* the rows the matcher of a row worked on: its anchors and its windows
MatcherInput(a) ==
    UNION {a.windows[j].window \cup {a.windows[j].anchor} : j \in DOMAIN a.windows}

\* the row a counts exactly the records of S, each one once
CountsEachOnce(a, S) ==
    /\ Range(a.scope) = S
    /\ Len(a.scope) = Cardinality(S)
    /\ a.row.total_tpv = SumAmounts(S)
    /\ a.row.unique_users_count =
          Cardinality({transactions[i].user_id : i \in S} \ {NanUser})
    /\ MatcherInput(a) = {i \in S : transactions[i].user_id # NanUser}

\* C25: every row counts each transaction record of its scope exactly once in
\* its unique users, total value, median (taken from the same list) and matcher
\* input, however many member intervals hold the record, and never merges two
\* records, also when they agree in user, timestamp and amount
C25_CountedExactlyOnce ==
    \A k \in DOMAIN audit : CountsEachOnce(audit[k], InScopeRecords(audit[k]))

\* the first of the in-scope records that are equal in every column
FirstOfEqual(a) ==
    {i \in InScopeRecords(a) :
        \A j \in InScopeRecords(a) : transactions[j] = transactions[i] => i <= j}

\* what holds instead: records equal in every column are counted as one, and
\* a record is counted once however many member intervals hold it
C25_CountedOncePerValue ==
    \A k \in DOMAIN audit : CountsEachOnce(audit[k], FirstOfEqual(audit[k]))

\* a row whose scope lost one of two records equal in every column
C25_MergedRecords ==
    \E k \in DOMAIN audit :
        \E i, j \in InScopeRecords(audit[k]) :
            /\ i < j
            /\ transactions[i] = transactions[j]
            /\ j \notin Range(audit[k].scope)
            /\ audit[k].row.total_tpv < SumAmounts(InScopeRecords(audit[k]))

\* baseline window w of the daily row a is a window of the scored day moved
\* back w.week_offset weeks: it lies on that earlier day, start before end, and
\* holds the moved timestamp of every transaction the row scored
ShiftedDayWindow(a, w) ==
    LET shift == w.week_offset * WEEK
    IN /\ a.lo - shift <= w.start
       /\ w.start <= w.end
       /\ w.end <= a.hi - shift
       /\ \A i \in Range(a.scope) : Ts(i) - shift >= w.start /\ Ts(i) - shift <= w.end

\* C26: the baseline window of a daily row at offset k is the scored day's own
\* window moved back exactly k weeks, whatever the number and the order of the
\* member intervals of the grouping
C26_DailyBaselineWindow ==
    \A k \in DOMAIN audit :
        audit[k].kind = "daily" =>
            \A j \in DOMAIN audit[k].baseline :
                /\ audit[k].baseline[j].week_offset = j
                /\ ShiftedDayWindow(audit[k], audit[k].baseline[j])

\* what holds instead: the window is that of the last member interval of the
\* list cut to the day, moved back k weeks, also when that interval does not
\* meet the day; with one member interval it is the scored window
C26_LastMemberWindow ==
    \A k \in DOMAIN audit :
        audit[k].kind = "daily" =>
            \A j \in DOMAIN audit[k].baseline :
                LET a == audit[k]
                    periods == a.grouping.activation_periods_list
                    last == periods[Len(periods)]
                    w == a.baseline[j]
                IN /\ w.week_offset = j
                   /\ w.start = DayEffStart(last, a.lo) - j * WEEK
                   /\ w.end = DayEffEnd(last, a.hi) - j * WEEK
                   /\ Len(periods) = 1 => ShiftedDayWindow(a, w)

\* a daily row with transactions whose baseline windows start after they end:
\* the last member interval of the grouping lies on another day
C26_InvertedWindow ==
    \E k \in DOMAIN audit :
        /\ audit[k].kind = "daily"
        /\ audit[k].scope # <<>>
        /\ \E j \in DOMAIN audit[k].baseline :
              audit[k].baseline[j].start > audit[k].baseline[j].end

\* C27: in one computation of a group's cumulative spend no transaction is in
\* the consumed windows of two charged events, also when two activations of
\* the group at one location overlap
C27_BudgetSingleConsumption ==
    \A log \in BudgetLogs :
        \A p, q \in EventsOf(log) :
            p # q => log[p].window \cap log[q].window = {}

\* what holds instead: the events of one activation never share a
\* transaction; the consumed set starts empty for every activation
C27_SingleConsumptionPerActivation ==
    \A log \in BudgetLogs :
        \A p, q \in EventsOf(log) :
            (p # q /\ log[p].act = log[q].act) => log[p].window \cap log[q].window = {}

\* one computation of the cumulative spend with two charged events, of two
\* overlapping activations at one location, that consumed the same transaction
C27_ChargedTwice ==
    \E k \in DOMAIN audit :
        \E p, q \in EventsOf(audit[k].budget) :
            LET e == audit[k].budget[p]
                f == audit[k].budget[q]
            IN /\ e.act # f.act
               /\ ActKey(e.act) = ActKey(f.act)
               /\ e.window \cap f.window # {}
               /\ audit[k].row.remaining_group_budget
                     <= audit[k].grouping.initial_budget
                        - activations[e.act].reward_amount - activations[f.act].reward_amount

\* the activations of the group of a row with parsed terms that start at or
\* after the cutoff of their own restaurant
OwnCutoffAccruing(a) ==
    {i \in DOMAIN activations :
        /\ a.grouping.restaurant_group_id # NoneVal
        /\ activations[i].restaurant_group_id = a.grouping.restaurant_group_id
        /\ activations[i].minimum_spend # NoneVal
        /\ activations[i].reward_amount # NoneVal
        /\ activations[i].start_dt # NaT
        /\ activations[i].start_dt >= BudgetStartDate(activations[i].restaurant_name)}

\* C28: in the budget of every row an activation of the group is scanned and
\* charged if and only if it starts at or after the cutoff of its own
\* restaurant (2025-10-26 for "The Bar at The Spectator", 2025-10-13 for the
\* others), whichever grouping the row scores; two rows of one group with the
\* same initial budget report the same remaining budget
C28_CutoffPerLocation ==
    /\ \A k \in DOMAIN audit :
          LET a == audit[k]
              acts == AscSeq(OwnCutoffAccruing(a))
          IN /\ \A j \in DOMAIN a.budget : a.budget[j].act \in OwnCutoffAccruing(a)
             /\ \A i \in OwnCutoffAccruing(a) :
                   \A t \in OwnTxns(i) :
                       transactions[t].user_id # NanUser
                       => \E j \in DOMAIN a.budget :
                             /\ a.budget[j].act = i
                             /\ \/ a.budget[j].anchor = t
                                \/ IsEvent(a.budget[j]) /\ t \in a.budget[j].window
             /\ a.grouping.initial_budget > 0 =>
                   a.row.remaining_group_budget =
                       a.grouping.initial_budget
                       - SumSeq([n \in DOMAIN acts |->
                                    Cardinality(BudgetEvents(a, acts[n]))
                                    * activations[acts[n]].reward_amount])
    /\ \A k1, k2 \in DOMAIN audit :
          (/\ audit[k1].grouping.restaurant_group_id # NoneVal
           /\ audit[k1].grouping.restaurant_group_id = audit[k2].grouping.restaurant_group_id
           /\ audit[k1].grouping.initial_budget = audit[k2].grouping.initial_budget)
              => audit[k1].row.remaining_group_budget = audit[k2].row.remaining_group_budget

\* a row of "The Bar at The Spectator" whose group has an activation of
\* another restaurant that starts between the two cutoffs and has a
\* qualifying transaction: the row's budget is not charged for it
C28_OtherCutoffApplied ==
    \E k \in DOMAIN audit :
        LET a == audit[k]
        IN /\ a.grouping.restaurant_name = SpectatorName
           /\ a.grouping.initial_budget > 0
           /\ \E i \in OwnCutoffAccruing(a) \ Accruing(a) :
                 /\ activations[i].restaurant_name # SpectatorName
                 /\ \E t \in OwnTxns(i) :
                       /\ transactions[t].user_id # NanUser
                       /\ transactions[t].amount >= activations[i].minimum_spend
           /\ a.row.remaining_group_budget = a.grouping.initial_budget

\* what the matcher found for user u in a log: the number of events, the
\* consumed transactions and whether the user redeemed
MatcherResult(log, u) ==
    LET events == {j \in EventsOf(log) : log[j].user = u}
    IN [count |-> Cardinality(events),
        consumed |-> UNION {log[j].window : j \in events},
        redeemed |-> events # {}]

\* the rows of the two runs that score the same scope
SameRow(k) ==
    /\ k \in DOMAIN first_run.audit
    /\ first_run.audit[k].scope = audit[k].scope
    /\ first_run.audit[k].kind = audit[k].kind

\* C29: two scans of the same scope that take the transactions of equal
\* timestamp in different orders count the same number of events for every
\* user, consume the same transactions and agree on who redeemed
C29_TieOrderIndependence ==
    run_no = 2 =>
        \A k \in DOMAIN audit :
            /\ SameRow(k)
            /\ \A u \in Range(UsersOf(audit[k].scope)) :
                  MatcherResult(audit[k].windows, u)
                      = MatcherResult(first_run.audit[k].windows, u)
            /\ audit[k].row.unique_users_count_REDEEMED
                  = first_run.audit[k].row.unique_users_count_REDEEMED
            /\ audit[k].row.marketing_spend = first_run.audit[k].row.marketing_spend

\* a row of the second run in whose scan two transactions of equal timestamp
\* of one user were taken in the other order than in the first run, the first
\* of them counted as an event that consumed both
C29_Witness ==
    /\ run_no = 2
    /\ \E k \in DOMAIN audit :
          \E i \in EventsOf(audit[k].windows) :
              LET e == audit[k].windows[i]
                  f == first_run.audit[k].windows[i]
              IN /\ i \in DOMAIN first_run.audit[k].windows
                 /\ e.anchor # f.anchor
                 /\ e.user = f.user
                 /\ Ts(e.anchor) = Ts(f.anchor)
                 /\ {e.anchor, f.anchor} \subseteq e.window
                 /\ e.window = f.window

\* every transaction of the scope of a row belongs to a user whose entry in
\* the user history is not later than the transaction
InHistory(a) ==
    \A i \in Range(a.scope) :
        LET key == HistoryKey(a.grouping.match_key, transactions[i].user_id)
        IN /\ key \in DOMAIN user_first_transaction
           /\ user_first_transaction[key] <= Ts(i)

\* C30: in every weekly and daily row the new and the returning users add up
\* to unique_users_count and the redeemed users are at most as many; every
\* user of the scope has an entry in the user history that is not later than
\* any transaction of the user in the scope, so no user is new by default
C30_UserCounts ==
    \A k \in DOMAIN audit :
        LET a == audit[k]
        IN /\ a.row.new_users_count + a.row.returning_users_count = a.row.unique_users_count
           /\ a.row.unique_users_count_REDEEMED <= a.row.unique_users_count
           /\ InHistory(a)

\* what holds instead: the redeemed users are at most unique_users_count;
\* new and returning add up to the values of user_id in the scope, the
\* missing value included, which unique_users_count leaves out; the users
\* with a user_id are in the history
C30_UserCountsWithMissing ==
    \A k \in DOMAIN audit :
        LET a == audit[k]
            missing == IF NanUser \in ScopeUsers(a) THEN 1 ELSE 0
        IN /\ a.row.new_users_count + a.row.returning_users_count
                 = a.row.unique_users_count + missing
           /\ a.row.unique_users_count_REDEEMED <= a.row.unique_users_count
           /\ \A i \in Range(a.scope) :
                 LET key == HistoryKey(a.grouping.match_key, transactions[i].user_id)
                 IN transactions[i].user_id # NanUser =>
                       /\ key \in DOMAIN user_first_transaction
                       /\ user_first_transaction[key] <= Ts(i)

\* a row whose scope holds a transaction without user_id: the missing value
\* is classified with the users and is not among the unique users
C30_MissingUserCounted ==
    \E k \in DOMAIN audit :
        LET a == audit[k]
        IN /\ NanUser \in ScopeUsers(a)
           /\ a.row.unique_users_count >= 1
           /\ a.row.new_users_count + a.row.returning_users_count
                 = a.row.unique_users_count + 1

====
